---- MODULE Spec2Model ----
(***************************************************************************)
(* encz: progress-stream parsing of the HandBrake and FFmpeg backends.     *)
(*                                                                         *)
(* Text is modelled by TLA+ strings (one character per byte).  Integers    *)
(* of the program (int64, time.Duration) are modelled exactly, as decimal  *)
(* numerals held in strings ("-1500"), because their range exceeds the     *)
(* model checker's integers.  float64 values are modelled as exact         *)
(* decimal fixed-point numbers.                                            *)
(***************************************************************************)
EXTENDS Integers, Sequences, FiniteSets, TLC

(***************************************************************************)
(* Characters and strings                                                  *)
(***************************************************************************)
Char(s, i) == SubSeq(s, i, i)

DigitChars == {"0", "1", "2", "3", "4", "5", "6", "7", "8", "9"}

DigitVal(c) ==
  CASE c = "0" -> 0 [] c = "1" -> 1 [] c = "2" -> 2 [] c = "3" -> 3
    [] c = "4" -> 4 [] c = "5" -> 5 [] c = "6" -> 6 [] c = "7" -> 7
    [] c = "8" -> 8 [] c = "9" -> 9

DigitChar(d) ==
  CASE d = 0 -> "0" [] d = 1 -> "1" [] d = 2 -> "2" [] d = 3 -> "3"
    [] d = 4 -> "4" [] d = 5 -> "5" [] d = 6 -> "6" [] d = 7 -> "7"
    [] d = 8 -> "8" [] d = 9 -> "9"

\* unicode.IsSpace restricted to the ASCII bytes the streams contain
SpaceChars == {" ", "\t", "\n", "\r", "\f"}

HasPrefix(s, p) == Len(s) >= Len(p) /\ SubSeq(s, 1, Len(p)) = p

TrimPrefix(s, p) == IF HasPrefix(s, p) THEN SubSeq(s, Len(p) + 1, Len(s)) ELSE s

\* strings.TrimSpace, for the ASCII white space
TrimSpace(s) ==
  IF s = "" \/ (Char(s, 1) \notin SpaceChars /\ Char(s, Len(s)) \notin SpaceChars) THEN s
  ELSE IF \A i \in 1..Len(s) : Char(s, i) \in SpaceChars THEN ""
  ELSE LET from == CHOOSE i \in 1..Len(s) :
                     /\ Char(s, i) \notin SpaceChars
                     /\ \A j \in 1..(i - 1) : Char(s, j) \in SpaceChars
           to == CHOOSE i \in 1..Len(s) :
                   /\ Char(s, i) \notin SpaceChars
                   /\ \A j \in (i + 1)..Len(s) : Char(s, j) \in SpaceChars
       IN  SubSeq(s, from, to)

AllIn(s, set) == \A i \in 1..Len(s) : Char(s, i) \in set

RECURSIVE Zeros(_)
Zeros(n) ==
  IF n <= 0 THEN "" ELSE IF n = 1 THEN "0"
  ELSE Zeros(n \div 2) \o Zeros(n - n \div 2)

(***************************************************************************)
(* Exact integer arithmetic on decimal numerals.  A magnitude is a string  *)
(* of digits without leading zeros ("0" for zero); a number is a magnitude *)
(* with "-" in front when negative.  Sums and differences are computed     *)
(* digit by digit, the carry into a position being determined by the       *)
(* digits to its right.                                                    *)
(***************************************************************************)
Digits(m) == [i \in 1..Len(m) |-> DigitVal(Char(m, i))]

\* the numeral of the digits f[lo..hi]
RECURSIVE Numeral(_, _, _)
Numeral(f, lo, hi) ==
  IF lo > hi THEN ""
  ELSE IF lo = hi THEN DigitChar(f[lo])
  ELSE Numeral(f, lo, (lo + hi) \div 2) \o Numeral(f, (lo + hi) \div 2 + 1, hi)

StripZeros(m) ==
  IF \A i \in 1..Len(m) : Char(m, i) = "0" THEN "0"
  ELSE SubSeq(m, CHOOSE i \in 1..Len(m) :
                   Char(m, i) # "0" /\ \A j \in 1..(i - 1) : Char(m, j) = "0",
              Len(m))

MagLess(a, b) ==
  \/ Len(a) < Len(b)
  \/ /\ Len(a) = Len(b)
     /\ \E i \in 1..Len(a) :
          /\ DigitVal(Char(a, i)) < DigitVal(Char(b, i))
          /\ \A j \in 1..(i - 1) : Char(a, j) = Char(b, j)

PadTo(m, n) == Zeros(n - Len(m)) \o m

MagAdd(a, b) ==
  LET n == (IF Len(a) > Len(b) THEN Len(a) ELSE Len(b)) + 1
  IN  CHOOSE r \in
        { LET carry(i) == \E j \in (i + 1)..n :
                            sum[j] >= 10 /\ \A k \in (i + 1)..(j - 1) : sum[k] = 9
          IN  StripZeros(Numeral(
                [i \in 1..n |-> (sum[i] + IF carry(i) THEN 1 ELSE 0) % 10], 1, n))
          : sum \in { [i \in 1..n |-> fa[i] + fb[i]]
                      : fa \in {Digits(PadTo(a, n))}, fb \in {Digits(PadTo(b, n))} } }
        : TRUE

MagSub(a, b) ==    \* a >= b
  LET n == Len(a)
  IN  CHOOSE r \in
        { LET borrow(i) == \E j \in (i + 1)..n :
                             diff[j] < 0 /\ \A k \in (i + 1)..(j - 1) : diff[k] = 0
          IN  StripZeros(Numeral(
                [i \in 1..n |-> (diff[i] - (IF borrow(i) THEN 1 ELSE 0) + 10) % 10], 1, n))
          : diff \in { [i \in 1..n |-> fa[i] - fb[i]]
                       : fa \in {Digits(a)}, fb \in {Digits(PadTo(b, n))} } }
        : TRUE

\* the multiples 0*b .. 10*b of b, at the indices 1 .. 11
Multiples(b) ==
  CHOOSE t \in
    { CHOOSE u \in
        { CHOOSE v \in
            { <<"0", b, m2, MagAdd(m2, b), m4, MagAdd(m4, b), MagAdd(m4, m2),
                MagSub(m8, b), m8, MagAdd(m8, b), StripZeros(b \o "0")>>
              : m8 \in {MagAdd(m4, m4)} } : TRUE
          : m4 \in {MagAdd(m2, m2)} } : TRUE
      : m2 \in {MagAdd(b, b)} } : TRUE

\* a times the digits b, mult = Multiples(a)
RECURSIVE MulBy(_, _)
MulBy(mult, b) ==
  IF b = "" THEN "0"
  ELSE CHOOSE res \in
         { MagAdd(StripZeros(hi \o "0"), mult[DigitVal(Char(b, Len(b))) + 1])
           : hi \in {MulBy(mult, SubSeq(b, 1, Len(b) - 1))} } : TRUE

\* the number of zeros that end the magnitude b # "0"
TrailingZeros(b) ==
  CHOOSE k \in 0..(Len(b) - 1) :
    /\ Char(b, Len(b) - k) # "0"
    /\ \A j \in (Len(b) - k + 1)..Len(b) : Char(b, j) = "0"

MagMul(a, b) ==
  IF a = "0" \/ b = "0" THEN "0"
  ELSE CHOOSE r \in
         { IF Len(b) - k = 1 /\ Head(b) = "1" THEN a \o Zeros(k)
           ELSE CHOOSE res \in
                  { StripZeros(p \o Zeros(k))
                    : p \in {MulBy(Multiples(a), SubSeq(b, 1, Len(b) - k))} } : TRUE
           : k \in {TrailingZeros(b)} } : TRUE

\* how many times b fits into r, for r < 10 * b and mult = Multiples(b)
Fits(r, mult) == CHOOSE d \in 0..9 : ~MagLess(r, mult[d + 1]) /\ MagLess(r, mult[d + 2])

\* long division of the digits a by b # 0, mult = Multiples(b):
\* <<quotient digits, remainder>>
RECURSIVE LongDiv(_, _)
LongDiv(a, mult) ==
  IF Len(a) < Len(mult[2]) THEN <<"", StripZeros(a)>>
  ELSE CHOOSE res \in
         { LET r1 == StripZeros(p[2] \o Char(a, Len(a)))
               d  == Fits(r1, mult)
           IN  <<p[1] \o DigitChar(d), IF d = 0 THEN r1 ELSE MagSub(r1, mult[d + 1])>>
           : p \in {LongDiv(SubSeq(a, 1, Len(a) - 1), mult)} } : TRUE

\* <<quotient digits, remainder>> of a by b # 0.  With b = m * 10^k, the
\* quotient is that of the digits of a but the last k by m, and the last k
\* digits of a go after the remainder of that division.
DivMod(a, b) ==
  CHOOSE qr \in
    { LET hi == SubSeq(a, 1, Len(a) - k)
          lo == SubSeq(a, Len(a) - k + 1, Len(a))
          m == SubSeq(b, 1, Len(b) - k)
      IN  IF Len(a) <= k THEN <<"0", a>>
          ELSE IF m = "1" THEN <<hi, StripZeros(lo)>>
          ELSE CHOOSE res \in
                 { <<p[1], StripZeros(p[2] \o lo)>>
                   : p \in {LongDiv(hi, Multiples(m))} } : TRUE
      : k \in {TrailingZeros(b)} } : TRUE
MagDiv(a, b) == StripZeros(DivMod(a, b)[1])
MagMod(a, b) == DivMod(a, b)[2]

IsNeg(x) == Head(x) = "-"
Mag(x) == IF IsNeg(x) THEN Tail(x) ELSE x
MkNum(neg, m) == IF neg /\ m # "0" THEN "-" \o m ELSE m
Neg(x) == MkNum(~IsNeg(x), Mag(x))

Less(x, y) ==
  \E xv \in {x}, yv \in {y} :
    IF IsNeg(xv) # IsNeg(yv) THEN IsNeg(xv)
    ELSE IF IsNeg(xv) THEN MagLess(Mag(yv), Mag(xv))
    ELSE MagLess(xv, yv)

Leq(x, y) == ~Less(y, x)

\* The operators below take the values of their arguments first
\* (CHOOSE r \in {f(v) : v \in {x}} : TRUE is f(x)).
Add(x, y) ==
  CHOOSE r \in
    { IF IsNeg(xv) = IsNeg(yv) THEN MkNum(IsNeg(xv), MagAdd(Mag(xv), Mag(yv)))
      ELSE IF MagLess(Mag(xv), Mag(yv)) THEN MkNum(IsNeg(yv), MagSub(Mag(yv), Mag(xv)))
      ELSE MkNum(IsNeg(xv), MagSub(Mag(xv), Mag(yv)))
      : xv \in {x}, yv \in {y} } : TRUE

Sub(x, y) == Add(x, Neg(y))

Mul(x, y) ==
  CHOOSE r \in
    { MkNum(IsNeg(xv) # IsNeg(yv), MagMul(Mag(xv), Mag(yv)))
      : xv \in {x}, yv \in {y} } : TRUE

\* quotient truncated toward zero, as Go's integer division and conversions
Quo(x, y) ==
  CHOOSE r \in
    { MkNum(IsNeg(xv) # IsNeg(yv), MagDiv(Mag(xv), Mag(yv)))
      : xv \in {x}, yv \in {y} } : TRUE

\* quotient rounded to the nearest integer, halves away from zero (math.Round)
QuoRound(x, y) ==
  CHOOSE r \in
    { CHOOSE res \in
        { LET up == ~MagLess(MagAdd(qr[2], qr[2]), Mag(yv))
              q == StripZeros(qr[1])
          IN  MkNum(IsNeg(xv) # IsNeg(yv), IF up THEN MagAdd(q, "1") ELSE q)
          : qr \in {DivMod(Mag(xv), Mag(yv))} } : TRUE
      : xv \in {x}, yv \in {y} } : TRUE

Two63 == "9223372036854775808"
Two64 == "18446744073709551616"
MaxInt64 == "9223372036854775807"
MinInt64 == "-9223372036854775808"

InInt64(x) == Leq(MinInt64, x) /\ Leq(x, MaxInt64)

\* two's-complement wrap of an exact integer into int64
WrapInt64(x) ==
  CHOOSE w \in
    { IF InInt64(xv) THEN xv
      ELSE CHOOSE r \in
             { LET u == IF IsNeg(xv) /\ m # "0" THEN MagSub(Two64, m) ELSE m
               IN  IF MagLess(u, Two63) THEN u ELSE MkNum(TRUE, MagSub(Two64, u))
               : m \in {MagMod(Mag(xv), Two64)} } : TRUE
      : xv \in {x} } : TRUE

(***************************************************************************)
(* float64 values are held as exact decimal fixed-point numbers with       *)
(* three digits after the point: the number 42.5 is "42500".  The texts of *)
(* the streams of the model have at most three decimals, and the results   *)
(* of the program's roundings have one or two.                             *)
(***************************************************************************)

\* index of the first c in s, 0 when there is none
IndexOf(s, c) ==
  IF \E i \in 1..Len(s) : Char(s, i) = c
  THEN CHOOSE i \in 1..Len(s) : Char(s, i) = c /\ \A j \in 1..(i - 1) : Char(s, j) # c
  ELSE 0

\* 2^1024 - 2^970: the decimal numbers from here on are nearer to 2^1024
\* than to the largest float64, and are out of range
Float64Overflow ==
  "1797693134862315807937289714053034150799341327100378269361737789804449"
  \o "6829276475094664901797758720709633028641669288791094655554785194040263"
  \o "0657488671505820681908902000708383676273854845817711531764475730270069"
  \o "8555713669596228429148198608349364752927190741684443655107043427115596"
  \o "99508093042880177904174497792"

PosInf == "+Inf"
NegInf == "-Inf"

\* strconv.ParseFloat(s, 64) on decimal notation [+-]digits[.digits]:
\* err and the value 0 for any other text, err and an infinity for a number
\* out of the range of float64
ParseFloat(s) ==
  LET signed == s # "" /\ Head(s) \in {"+", "-"}
      body == IF signed THEN Tail(s) ELSE s
      dot == IndexOf(body, ".")
      ip == IF dot = 0 THEN body ELSE SubSeq(body, 1, dot - 1)
      fp == IF dot = 0 THEN "" ELSE SubSeq(body, dot + 1, Len(body))
      ok == /\ AllIn(ip, DigitChars) /\ AllIn(fp, DigitChars)
            /\ Len(ip) + Len(fp) > 0
      frac == SubSeq(fp \o "000", 1, 3)
      neg == signed /\ Head(s) = "-"
  IN  IF ~ok THEN [err |-> TRUE, val |-> "0"]
      ELSE IF ~MagLess(StripZeros(ip), Float64Overflow)
      THEN [err |-> TRUE, val |-> IF neg THEN NegInf ELSE PosInf]
      ELSE [err |-> FALSE, val |-> MkNum(neg, StripZeros(ip \o frac))]

\* math.Round(f*10) / 10 of a fixed-point f
Round1(f) == IF f \in {PosInf, NegInf} THEN f ELSE Mul(QuoRound(f, "100"), "100")

\* ------------------------------------------------------------------------
\* handbrake: the regular expression of parseProgress,
\*   Encoding: task \d+ of \d+, ([\d.]+) %
\* followed by the optional clause
\*   \s* ( [^,]+ , \s* avg \s+ ([\d.]+) \s* fps, \s* ETA \s+ ([^)]+) )
\* ------------------------------------------------------------------------
ReSpace == {" ", "\t", "\n", "\r", "\f"}    \* \s
ReNum == DigitChars \cup {"."}              \* [\d.]

LitAt(s, i, lit) == i + Len(lit) - 1 <= Len(s) /\ SubSeq(s, i, i + Len(lit) - 1) = lit

\* the end of the longest run of characters of set that starts at i
\* (i - 1 when the run is empty): a greedy repetition
RunEnd(s, i, set) ==
  CHOOSE j \in (i - 1)..Len(s) :
    /\ \A k \in i..j : Char(s, k) \in set
    /\ (j = Len(s) \/ Char(s, j + 1) \notin set)

\* the end of the longest run of characters other than c that starts at i
RunEndNot(s, i, c) ==
  CHOOSE j \in (i - 1)..Len(s) :
    /\ \A k \in i..j : Char(s, k) # c
    /\ (j = Len(s) \/ Char(s, j + 1) = c)

\* the mandatory part matched at i: [ok, g1 = <<from, to>> of ([\d.]+), end]
ReHead(s, i) ==
  LET noMatch == [ok |-> FALSE, g1 |-> <<1, 0>>, end |-> 0]
      n1 == i + Len("Encoding: task ")
      e1 == RunEnd(s, n1, DigitChars)
      n2 == e1 + 1 + Len(" of ")
      e2 == RunEnd(s, n2, DigitChars)
      n3 == e2 + 1 + Len(", ")
      e3 == RunEnd(s, n3, ReNum)
  IN  IF ~LitAt(s, i, "Encoding: task ") THEN noMatch
      ELSE IF e1 < n1 \/ ~LitAt(s, e1 + 1, " of ") THEN noMatch
      ELSE IF e2 < n2 \/ ~LitAt(s, e2 + 1, ", ") THEN noMatch
      ELSE IF e3 < n3 \/ ~LitAt(s, e3 + 1, " %") THEN noMatch
      ELSE [ok |-> TRUE, g1 |-> <<n3, e3>>, end |-> e3 + Len(" %")]

\* the optional clause matched after position e: [ok, g2, g3]
ReTail(s, e) ==
  LET noMatch == [ok |-> FALSE, g2 |-> <<1, 0>>, g3 |-> <<1, 0>>]
      a0 == RunEnd(s, e + 1, ReSpace)                 \* \s*
      b0 == a0 + 2                                     \* after "("
      b1 == RunEndNot(s, b0, ",")                      \* [^,]+
      c0 == RunEnd(s, b1 + 2, ReSpace)                 \* ",", \s*
      d0 == c0 + 1 + Len("avg")
      d1 == RunEnd(s, d0, ReSpace)                     \* \s+
      f1 == RunEnd(s, d1 + 1, ReNum)                   \* ([\d.]+)
      h0 == RunEnd(s, f1 + 1, ReSpace)                 \* \s*
      k0 == RunEnd(s, h0 + 1 + Len("fps,"), ReSpace)   \* \s*
      m0 == k0 + 1 + Len("ETA")
      m1 == RunEnd(s, m0, ReSpace)                     \* \s+
      p1 == RunEndNot(s, m1 + 1, ")")                  \* ([^)]+)
  IN  IF ~LitAt(s, a0 + 1, "(") THEN noMatch
      ELSE IF b1 < b0 \/ ~LitAt(s, b1 + 1, ",") THEN noMatch
      ELSE IF ~LitAt(s, c0 + 1, "avg") THEN noMatch
      ELSE IF d1 < d0 THEN noMatch
      ELSE IF f1 < d1 + 1 THEN noMatch
      ELSE IF ~LitAt(s, h0 + 1, "fps,") THEN noMatch
      ELSE IF ~LitAt(s, k0 + 1, "ETA") THEN noMatch
      ELSE IF m1 < m0 THEN noMatch
      ELSE IF p1 >= m1 + 1
           THEN IF LitAt(s, p1 + 1, ")")
                THEN [ok |-> TRUE, g2 |-> <<d1 + 1, f1>>, g3 |-> <<m1 + 1, p1>>]
                ELSE noMatch
           \* ")" right after the spaces: \s+ gives its last space to ([^)]+)
           ELSE IF m1 > m0 /\ LitAt(s, m1 + 1, ")")
                THEN [ok |-> TRUE, g2 |-> <<d1 + 1, f1>>, g3 |-> <<m1, m1>>]
                ELSE noMatch

\* progressRe.FindStringSubmatch(line): the leftmost match and its groups
\* ("" for a group that took no part); matches = <<>> when nothing matches
FindStringSubmatch(line) ==
  LET starts == {i \in 1..Len(line) : ReHead(line, i).ok}
  IN  IF starts = {} THEN <<>>
      ELSE LET i == CHOOSE i \in starts : \A j \in starts : i <= j
               h == ReHead(line, i)
               t == ReTail(line, h.end)
               last == IF t.ok THEN t.g3[2] + 1 ELSE h.end
           IN  << SubSeq(line, i, last),
                  SubSeq(line, h.g1[1], h.g1[2]),
                  IF t.ok THEN SubSeq(line, t.g2[1], t.g2[2]) ELSE "",
                  IF t.ok THEN SubSeq(line, t.g3[1], t.g3[2]) ELSE "" >>

\* ------------------------------------------------------------------------
\* time.ParseDuration: a signed run of <number><unit> components or "0", in
\* nanoseconds; err and value 0 for any other text or out of range
\* ------------------------------------------------------------------------
UnitNs(u) ==
  CASE u = "ns" -> "1" [] u = "us" -> "1000" [] u = "ms" -> "1000000"
    [] u = "s" -> "1000000000" [] u = "m" -> "60000000000"
    [] u = "h" -> "3600000000000" [] OTHER -> "0"

\* the magnitude of a run of number-and-unit components: [err, val]
RECURSIVE DurationParts(_)
DurationParts(s) ==
  IF s = "" THEN [err |-> FALSE, val |-> "0"]
  ELSE LET e1 == RunEnd(s, 1, DigitChars)
           ip == SubSeq(s, 1, e1)
           hasDot == LitAt(s, e1 + 1, ".")
           e2 == IF hasDot THEN RunEnd(s, e1 + 2, DigitChars) ELSE e1
           fp == IF hasDot THEN SubSeq(s, e1 + 2, e2) ELSE ""
           e3 == CHOOSE j \in e2..Len(s) :
                   /\ \A k \in (e2 + 1)..j : Char(s, k) \notin ReNum
                   /\ (j = Len(s) \/ Char(s, j + 1) \in ReNum)
           unit == UnitNs(SubSeq(s, e2 + 1, e3))
           whole == Mul(StripZeros(ip), unit)
           part == Quo(Mul(StripZeros(fp), unit), "1" \o Zeros(Len(fp)))
           rest == DurationParts(SubSeq(s, e3 + 1, Len(s)))
           total == Add(Add(whole, part), rest.val)
       IN  IF Len(ip) + Len(fp) = 0 \/ unit = "0" \/ rest.err \/ Less(Two63, total)
           THEN [err |-> TRUE, val |-> "0"]
           ELSE [err |-> FALSE, val |-> total]

ParseDuration(s) ==
  LET signed == s # "" /\ Head(s) \in {"+", "-"}
      neg == signed /\ Head(s) = "-"
      body == IF signed THEN Tail(s) ELSE s
      d == DurationParts(body)
  IN  IF body = "0" THEN [err |-> FALSE, val |-> "0"]
      ELSE IF body = "" \/ d.err \/ (~neg /\ d.val = Two63)
      THEN [err |-> TRUE, val |-> "0"]
      ELSE [err |-> FALSE, val |-> MkNum(neg, d.val)]

(***************************************************************************)
(* Bounds and inputs of the model                                          *)
(***************************************************************************)
MaxChunks == 4     \* pieces of subprocess output in a handbrake stream
MaxLines == 3      \* lines of subprocess output in an ffmpeg stream
MaxTicks == 2      \* advances of the wall clock
MaxEncodeChunks == 3  \* the same as MaxChunks, when a whole call of Encode is followed
MaxEncodeLines == 2   \* the same as MaxLines, when a whole call of Encode is followed

\* pieces the HandBrakeCLI output is made of
HbChunks ==
  { "\r", "\n", "a",
    "Encoding: task 1 of 1, 5 %",
    "Encoding: task 1 of 2, 150.0 %",
    "Encoding: task 1 of 1, 42.5 % (7.3 fps, avg 6.9 fps, ETA 00h01m30s)" }

\* lines the ffmpeg -progress output is made of
FfLines ==
  { "progress=continue", "frame=10", "fps=25.5", "fps=N/A",
    "total_size=1048576", "total_size=N/A",
    "out_time_ms=50000000", "out_time_ms=100000000", "out_time_ms=N/A",
    "out_time_ms=-1000000", "out_time_ms=-9223372036854775807" }

\* texts of a percent or of a speed, the float64 each denotes, and that
\* number rounded to one decimal
NumberTexts ==
  { [text |-> "5", val |-> "5000", r1 |-> "5000"],
    [text |-> "42.5", val |-> "42500", r1 |-> "42500"],
    [text |-> "6.9", val |-> "6900", r1 |-> "6900"],
    [text |-> "99.96", val |-> "99960", r1 |-> "100000"],
    [text |-> "0.05", val |-> "50", r1 |-> "100"],
    [text |-> "7.", val |-> "7000", r1 |-> "7000"],
    [text |-> ".5", val |-> "500", r1 |-> "500"] }

\* texts that [\d.]+ matches and that are not the text of a float64: the
\* last one is 10^309
BadNumberTexts == { ".", "1.2.3", "1" \o Zeros(309) }

\* texts of an ETA, and the time.Duration each denotes
DurationTexts ==
  { [text |-> "00h01m30s", val |-> "90000000000"],
    [text |-> "01h23m45s", val |-> "5025000000000"],
    [text |-> "23m45s", val |-> "1425000000000"] }

\* texts that [^)]+ matches and that time.ParseDuration rejects
BadDurationTexts == { "soon", "01:30", "9999999999h" }

\* the parts of a line of HandBrakeCLI: what precedes the marker, the
\* marker "Encoding: task n of m, p %", and the clause, if there is one
ProgressLine(pre, n, m, p, clause) ==
  pre \o "Encoding: task " \o n \o " of " \o m \o ", " \o p \o " %" \o clause

Clause(f, d) == " (7.3 fps, avg " \o f \o " fps, ETA " \o d \o ")"

\* the lines parseProgress is applied to: [text, p, f, d], with "" for f and
\* d when the line has no clause
ParseLines ==
  LET ps == {x.text : x \in NumberTexts} \cup BadNumberTexts
      ds == {x.text : x \in DurationTexts} \cup BadDurationTexts
      heads == {<<"", "1", "1">>, <<"x ", "2", "10">>}
  IN  { [text |-> ProgressLine(h[1], h[2], h[3], p, ""), p |-> p, f |-> "", d |-> ""] :
          h \in heads, p \in ps }
      \cup
      { [text |-> ProgressLine(h[1], h[2], h[3], c[1], Clause(c[2], c[3])),
         p |-> c[1], f |-> c[2], d |-> c[3]] :
          h \in heads, c \in ps \X ps \X ds }

\* the line that follows in the stream
NextLine == "Encoding: task 1 of 1, 5 %"

\* what separates the records of a stream of key=value records, each record
\* being followed by the separator
Separators == {"\n", "\r\n", "\r"}
MaxRecords == 2    \* records of such a stream
StreamRecords ==
  { "progress=continue", "fps=25.5", "total_size=1048576",
    "out_time_ms=50000000", "out_time_ms=100000000" }

RECURSIVE JoinRecords(_, _)
JoinRecords(recs, sep) ==
  IF recs = <<>> THEN "" ELSE Head(recs) \o sep \o JoinRecords(Tail(recs), sep)

\* the streams: [recs, sep, text]
SepStreams ==
  { [recs |-> r, sep |-> sep, text |-> JoinRecords(r, sep)] :
      r \in UNION { [1..n -> StreamRecords] : n \in 1..MaxRecords },
      sep \in Separators }

\* elapsed times since the start of the progress, in nanoseconds: none, a
\* nanosecond, 9999 ns, 2.5 s, an hour, 11 days, 285 years
EtaClocks ==
  { "0", "1", "9999", "2500000000", "3600000000000", "950400000000000",
    "9000000000000000000" }

\* out_time_ms lines: of a total of 100 s they are 0, 0.01, 50, 99.99,
\* 99.996, 100 and 150 percent
EtaLines ==
  { "out_time_ms=0", "out_time_ms=10000", "out_time_ms=50000000",
    "out_time_ms=99990000", "out_time_ms=99996000", "out_time_ms=100000000",
    "out_time_ms=150000000" }

\* totalDuration: unknown, or 100s
TotalDurations == {"0", "100000000000"}

\* what the wall clock advances by between two steps, in nanoseconds
ClockSteps == {"2500000000"}

\* exit statuses of the subprocess
ExitStatuses == {0, 1}

\* outcomes of os.Stat(outputPath)
StatResults == {[err |-> TRUE, size |-> "0"], [err |-> FALSE, size |-> "1048576"]}

(***************************************************************************)
(* EncodeProgress                                                          *)
(***************************************************************************)
EncodeProgress(percent, fpsAvg, eta, currentSize) ==
  [Percent |-> percent, FPSAvg |-> fpsAvg, ETA |-> eta, CurrentSize |-> currentSize]

ZeroProgress == EncodeProgress("0", "0", "0", "0")

(***************************************************************************)
(* handbrake.parseProgress                                                 *)
(***************************************************************************)
\* parseProgress without math.Round
parseProgressNoRound(ln, stat) ==
  LET matches == FindStringSubmatch(ln)
  IN  IF Len(matches) < 2 THEN [ok |-> FALSE, progress |-> ZeroProgress]
      ELSE LET percent == ParseFloat(matches[2]).val
               clause == Len(matches) >= 4 /\ matches[3] # ""
               fpsAvg == IF clause THEN ParseFloat(matches[3]).val ELSE "0"
               eta == IF clause THEN ParseDuration(TrimSpace(matches[4])).val ELSE "0"
               currentSize == IF stat.err THEN "0" ELSE stat.size
           IN  [ok |-> TRUE,
                progress |-> EncodeProgress(percent, fpsAvg, eta, currentSize)]

\* parseProgress without os.Stat
parseProgressNoStat(ln, stat) ==
  LET matches == FindStringSubmatch(ln)
  IN  IF Len(matches) < 2 THEN [ok |-> FALSE, progress |-> ZeroProgress]
      ELSE LET percent == ParseFloat(matches[2]).val
               clause == Len(matches) >= 4 /\ matches[3] # ""
               fpsAvg == IF clause THEN ParseFloat(matches[3]).val ELSE "0"
               eta == IF clause THEN ParseDuration(TrimSpace(matches[4])).val ELSE "0"
           IN  [ok |-> TRUE,
                progress |-> EncodeProgress(Round1(percent), fpsAvg, eta, "0")]

\* parseProgress without the "len(matches) < 2" return
parseProgressNoCheck(ln, stat) ==
  LET matches == FindStringSubmatch(ln) \o <<"", "">>
  IN  [ok |-> TRUE,
       progress |-> EncodeProgress(Round1(ParseFloat(matches[2]).val), "0", "0",
                                   IF stat.err THEN "0" ELSE stat.size)]

parseProgress(ln, stat) ==
  LET matches == FindStringSubmatch(ln)
  IN  IF Len(matches) < 2 THEN [ok |-> FALSE, progress |-> ZeroProgress]
      ELSE LET percent == ParseFloat(matches[2]).val
               clause == Len(matches) >= 4 /\ matches[3] # ""
               fpsAvg == IF clause THEN ParseFloat(matches[3]).val ELSE "0"
               eta == IF clause THEN ParseDuration(TrimSpace(matches[4])).val ELSE "0"
               currentSize == IF stat.err THEN "0" ELSE stat.size
           IN  [ok |-> TRUE,
                progress |-> EncodeProgress(Round1(percent), fpsAvg, eta, currentSize)]

(***************************************************************************)
(* ffmpeg: bufio.Scanner with the default split function (ScanLines)       *)
(***************************************************************************)
dropCR(data) ==
  IF data # "" /\ Char(data, Len(data)) = "\r"
  THEN SubSeq(data, 1, Len(data) - 1) ELSE data

\* ScanLines that ends a token at "\r" as well as at "\n"
ScanLinesAtCR(data) ==
  LET ends == {i \in 1..Len(data) : Char(data, i) \in {"\r", "\n"}}
      i == IF ends = {} THEN 0 ELSE CHOOSE i \in ends : \A j \in ends : i <= j
  IN  IF i > 0
      THEN [token |-> SubSeq(data, 1, i - 1), rest |-> SubSeq(data, i + 1, Len(data))]
      ELSE [token |-> data, rest |-> ""]

\* the next token of the non-empty data and what is left after it
ScanLines(data) ==
  LET i == IndexOf(data, "\n")
  IN  IF i > 0
      THEN [token |-> dropCR(SubSeq(data, 1, i - 1)), rest |-> SubSeq(data, i + 1, Len(data))]
      ELSE [token |-> dropCR(data), rest |-> ""]

\* strconv.ParseInt(s, 10, 64)
ParseInt(s) ==
  LET signed == s # "" /\ Head(s) \in {"+", "-"}
      body == IF signed THEN Tail(s) ELSE s
      n == MkNum(signed /\ Head(s) = "-", StripZeros(body))
  IN  IF body # "" /\ AllIn(body, DigitChars) /\ InInt64(n)
      THEN [err |-> FALSE, val |-> n]
      ELSE [err |-> TRUE, val |-> "0"]

\* round(min(100.0, float64(currentTime)/float64(totalDuration)*100), 2)
PercentOf(currentTime, totalDuration) ==
  IF Less(totalDuration, currentTime) THEN "100000"
  ELSE Mul(QuoRound(Mul(currentTime, "10000"), totalDuration), "10")

\* d.Truncate(time.Second)
TruncateSecond(d) == Mul(Quo(d, "1000000000"), "1000000000")

\* TrackStart that arms the timestamp on the first line, whatever it is
TrackStartAnyLine(st, ln, now) ==
  IF ~st.progressStarted THEN <<now, TRUE>>
  ELSE <<st.startTime, st.progressStarted>>

\* TrackStart without the "!progressStarted" condition
TrackStartEveryMarker(st, ln, now) ==
  IF HasPrefix(ln, "progress=continue")
  THEN <<now, TRUE>>
  ELSE <<st.startTime, st.progressStarted>>

\* iterProgress, "Track when progress starts": <<startTime, progressStarted>>
TrackStart(st, ln, now) ==
  IF HasPrefix(ln, "progress=continue") /\ ~st.progressStarted
  THEN <<now, TRUE>>
  ELSE <<st.startTime, st.progressStarted>>

\* ParseFPS that stores the zero value of a failed parse
ParseFPSIgnoresErr(progress, ln) ==
  IF HasPrefix(ln, "fps=")
  THEN [progress EXCEPT !.FPSAvg = ParseFloat(TrimPrefix(ln, "fps=")).val]
  ELSE progress

\* iterProgress, "Parse FPS"
ParseFPS(progress, ln) ==
  IF HasPrefix(ln, "fps=") /\ ~ParseFloat(TrimPrefix(ln, "fps=")).err
  THEN [progress EXCEPT !.FPSAvg = ParseFloat(TrimPrefix(ln, "fps=")).val]
  ELSE progress

\* ParseTotalSize that stores the zero value of a failed parse
ParseTotalSizeIgnoresErr(progress, ln) ==
  IF HasPrefix(ln, "total_size=")
  THEN [progress EXCEPT !.CurrentSize = ParseInt(TrimPrefix(ln, "total_size=")).val]
  ELSE progress

\* iterProgress, "Parse total size"
ParseTotalSize(progress, ln) ==
  IF HasPrefix(ln, "total_size=") /\ ~ParseInt(TrimPrefix(ln, "total_size=")).err
  THEN [progress EXCEPT !.CurrentSize = ParseInt(TrimPrefix(ln, "total_size=")).val]
  ELSE progress

\* time.Duration(ms * 1000): the product wraps around in int64
CurrentTime(ms) == WrapInt64(Mul(ms, "1000"))

\* what the conversion of a float64 beyond the range of int64 to int64 can
\* give: the value depends on the build, the minimum of int64 on amd64 and
\* the maximum on arm64
ConversionOverflows == {MinInt64, MaxInt64}

\* time.Duration(f) of a float64 of integral part q, ovf being what the
\* build gives beyond the range of int64
Float64ToInt64(q, ovf) == IF InInt64(q) THEN q ELSE ovf

\* EtaOf with the difference taken the other way round
EtaOfElapsedLessEstimated(elapsed, percent, ovf) ==
  TruncateSecond(WrapInt64(
    Sub(elapsed, Float64ToInt64(Quo(Mul(elapsed, "100000"), percent), ovf))))

\* (estimated - elapsed).Truncate(time.Second), where
\* estimated = time.Duration(float64(elapsed) * 100 / percent); the
\* difference wraps around in int64
EtaOf(elapsed, percent, ovf) ==
  TruncateSecond(WrapInt64(
    Sub(Float64ToInt64(Quo(Mul(elapsed, "100000"), percent), ovf), elapsed)))

\* ParseOutTime that yields at the end of the block, whether or not the
\* value has parsed
ParseOutTimeYieldsAlways(progress, ln, total, now, startTime, progressStarted, ovf) ==
  LET ms == ParseInt(TrimPrefix(ln, "out_time_ms="))
  IN  IF HasPrefix(ln, "out_time_ms=") /\ Less("0", total)
      THEN [progress |->
              IF ms.err THEN progress
              ELSE [progress EXCEPT !.Percent = PercentOf(CurrentTime(ms.val), total)],
            yield |-> TRUE]
      ELSE [progress |-> progress, yield |-> FALSE]

\* ParseOutTime without the "totalDuration > 0" condition
ParseOutTimeAnyTotal(progress, ln, total, now, startTime, progressStarted, ovf) ==
  LET ms == ParseInt(TrimPrefix(ln, "out_time_ms="))
  IN  IF HasPrefix(ln, "out_time_ms=") /\ ~ms.err
      THEN [progress |->
              IF total = "0" THEN progress
              ELSE [progress EXCEPT !.Percent = PercentOf(CurrentTime(ms.val), total)],
            yield |-> TRUE]
      ELSE [progress |-> progress, yield |-> FALSE]

\* iterProgress, the out_time_ms= block: currentProgress after it, and
\* whether it is yielded
ParseOutTime(progress, ln, total, now, startTime, progressStarted, ovf) ==
  LET ms == ParseInt(TrimPrefix(ln, "out_time_ms="))
  IN  IF HasPrefix(ln, "out_time_ms=") /\ ~ms.err /\ Less("0", total)
      THEN CHOOSE r \in
             { [progress |->
                  IF progressStarted /\ Less("0", percent) /\ Less(percent, "100000")
                  THEN [progress EXCEPT !.Percent = percent,
                                        !.ETA = EtaOf(Sub(now, startTime), percent, ovf)]
                  ELSE [progress EXCEPT !.Percent = percent],
                yield |-> TRUE]
               : percent \in {PercentOf(CurrentTime(ms.val), total)} } : TRUE
      ELSE [progress |-> progress, yield |-> FALSE]

\* the body of the scan loop of iterProgress for one token of the scanner:
\* the running state after it, and whether currentProgress is yielded
iterProgressLine(st, text, total, now, ovf) ==
  LET ln == TrimSpace(text)
      started == TrackStart(st, ln, now)
      p == ParseTotalSize(ParseFPS(st.currentProgress, ln), ln)
      r == ParseOutTime(p, ln, total, now, started[1], started[2], ovf)
  IN  [state |-> [currentProgress |-> r.progress, startTime |-> started[1],
                  progressStarted |-> started[2]],
       yield |-> r.yield]

(***************************************************************************)
(* ffmpeg.Encode: the argument vector                                      *)
(***************************************************************************)
\* index of the last c in s, 0 when there is none
LastIndexOf(s, c) ==
  IF \E i \in 1..Len(s) : Char(s, i) = c
  THEN CHOOSE i \in 1..Len(s) : Char(s, i) = c /\ \A j \in (i + 1)..Len(s) : Char(s, j) # c
  ELSE 0

\* filepath.Base(path), for a path that does not end in a separator
Base(path) == IF path = "" THEN "." ELSE SubSeq(path, LastIndexOf(path, "/") + 1, Len(path))

\* filepath.Ext(path): from the last dot of the last element on
Ext(path) ==
  LET i == LastIndexOf(Base(path), ".")
  IN  IF i = 0 THEN "" ELSE SubSeq(Base(path), i, Len(Base(path)))

\* strings.TrimSuffix(s, suffix)
TrimSuffix(s, suffix) ==
  IF Len(s) >= Len(suffix) /\ SubSeq(s, Len(s) - Len(suffix) + 1, Len(s)) = suffix
  THEN SubSeq(s, 1, Len(s) - Len(suffix))
  ELSE s

\* fmt.Sprintf("%.0f", f) of a fixed-point f that is not negative: the
\* nearest integer, the even one of two that are as near
FormatF0(f) ==
  LET padded == PadTo(f, 4)
      q == SubSeq(padded, 1, Len(padded) - 3)
      r == SubSeq(padded, Len(padded) - 2, Len(padded))
      odd == Char(q, Len(q)) \in {"1", "3", "5", "7", "9"}
  IN  IF MagLess("500", r) \/ (r = "500" /\ odd) THEN MagAdd(q, "1") ELSE q

\* fmt.Sprintf("%d", int(d.Seconds())) of a time.Duration d that is
\* positive: the nanoseconds without their last nine digits
SecondsText(d) == IF Len(d) <= 9 THEN "0" ELSE SubSeq(d, 1, Len(d) - 9)

\* "Add video scaling filter if width or height are specified"
ScaleArgs(width, height) ==
  IF Less("0", width) /\ Less("0", height)
  THEN <<"-vf", "scale=" \o width \o ":" \o height \o ":force_original_aspect_ratio=decrease">>
  ELSE IF Less("0", width) THEN <<"-vf", "scale=" \o width \o ":-2">>
  ELSE IF Less("0", height) THEN <<"-vf", "scale=-2:" \o height>>
  ELSE <<>>

\* "Replace profile with main10": the first "main" that follows "-profile:v"
RECURSIVE ReplaceProfile(_, _)
ReplaceProfile(a, prev) ==
  IF a = <<>> THEN <<>>
  ELSE IF Head(a) = "main" /\ prev = "-profile:v" THEN <<"main10">> \o Tail(a)
  ELSE <<Head(a)>> \o ReplaceProfile(Tail(a), Head(a))

\* SpliceBefore that appends the flag and its value to the vector
SpliceAtEnd(a, flag, value) == a \o <<flag, value>>

\* "Insert before -i": the flag and its value before every "-i" of the vector
RECURSIVE SpliceBefore(_, _, _)
SpliceBefore(a, flag, value) ==
  IF a = <<>> THEN <<>>
  ELSE (IF Head(a) = "-i" THEN <<flag, value>> ELSE <<>>)
       \o <<Head(a)>> \o SpliceBefore(Tail(a), flag, value)

\* the argument vector of ffmpeg.Encode
FfArgs(p) ==
  LET base == << "ffmpeg", "-y", "-progress", "pipe:1", "-stats_period", "3",
                 "-i", p.InputPath,
                 "-c:v", "hevc_videotoolbox",
                 "-q:v", FormatF0(p.Quality),
                 "-profile:v", "main",
                 "-map_metadata", "0",
                 "-metadata",
                 "title=" \o TrimSuffix(Base(p.InputPath), Ext(p.InputPath)) >>
      scaled == base \o ScaleArgs(p.Width, p.Height) \o <<p.OutputPath>>
      profiled == IF p.Is10Bit THEN ReplaceProfile(scaled, "") ELSE scaled
      from == IF Less("0", p.FromTime)
              THEN SpliceBefore(profiled, "-ss", SecondsText(p.FromTime))
              ELSE profiled
      to == IF Less("0", p.Duration)
            THEN SpliceBefore(from, "-t", SecondsText(p.Duration))
            ELSE from
  IN  to \o p.ExtraArgs

\* ffmpeg.EncodeParams
EncodeParams(in, out, quality, is10Bit, fromTime, duration, width, height, extra) ==
  [InputPath |-> in, OutputPath |-> out, Quality |-> quality, Is10Bit |-> is10Bit,
   FromTime |-> fromTime, Duration |-> duration, Width |-> width,
   Height |-> height, ExtraArgs |-> extra]

\* handbrake.EncodeParams: the same, and Denoise
HbEncodeParams(p, denoise) ==
  [InputPath |-> p.InputPath, OutputPath |-> p.OutputPath, Quality |-> p.Quality,
   Is10Bit |-> p.Is10Bit, FromTime |-> p.FromTime, Duration |-> p.Duration,
   Denoise |-> denoise, Width |-> p.Width, Height |-> p.Height,
   ExtraArgs |-> p.ExtraArgs]

\* fmt.Sprintf("%0.1f", d.Seconds()) of a time.Duration d that is positive:
\* the nearest tenth of a second, the even one of two that are as near when
\* float64 holds the seconds exactly
SecondsText1(d) ==
  LET padded == PadTo(d, 10)
      q == SubSeq(padded, 1, Len(padded) - 8)
      r == SubSeq(padded, Len(padded) - 7, Len(padded))
      odd == Char(q, Len(q)) \in {"1", "3", "5", "7", "9"}
      t == PadTo(IF MagLess("50000000", r) \/ (r = "50000000" /\ odd)
                 THEN MagAdd(q, "1") ELSE StripZeros(q), 2)
  IN  SubSeq(t, 1, Len(t) - 1) \o "." \o SubSeq(t, Len(t), Len(t))

\* HbScaleArgs that gives the width alone when both are specified
HbScaleArgsWidthFirst(width, height) ==
  IF Less("0", width) THEN <<"--width", width>>
  ELSE IF Less("0", height) THEN <<"--height", height>>
  ELSE <<>>

\* handbrake.Encode, "Add video scaling parameters if width or height are
\* specified"; strconv.Itoa gives the decimal numeral an int is held as
HbScaleArgs(width, height) ==
  IF Less("0", width) /\ Less("0", height)
  THEN <<"--width", width, "--height", height>>
  ELSE IF Less("0", width) THEN <<"--width", width>>
  ELSE IF Less("0", height) THEN <<"--height", height>>
  ELSE <<>>

\* the argument vector of handbrake.Encode
HbArgs(p) ==
  << "HandbrakeCLI", "--format", "av_mp4",
     "--input", p.InputPath,
     "--output", p.OutputPath,
     "--optimize",
     "--encoder", IF p.Is10Bit THEN "vt_h265_10bit" ELSE "vt_h265",
     "--quality", FormatF0(p.Quality),
     "--vfr", "--aencoder", "ac3", "--ab", "160", "--non-anamorphic",
     "--verbose", "1" >>
  \o (IF Less("0", p.FromTime)
      THEN <<"--start-at", "duration:" \o SecondsText1(p.FromTime)>> ELSE <<>>)
  \o (IF Less("0", p.Duration)
      THEN <<"--stop-at", "duration:" \o SecondsText1(p.Duration)>> ELSE <<>>)
  \o (IF p.Denoise THEN <<"--hqdn3d", "light">> ELSE <<>>)
  \o HbScaleArgs(p.Width, p.Height)
  \o p.ExtraArgs

(***************************************************************************)
(* main: the command line, Validate, and run                               *)
(***************************************************************************)
\* parseArgs: the cliArgs with every flag at its default, and a video path;
\* Encoder is the variable backend
DefaultCli ==
  [VideoPath |-> "/v/in.mov", OutputDir |-> "", Quality |-> "35000",
   Denoise |-> FALSE, Is10Bit |-> TRUE, FromTime |-> "0", ToTime |-> "0",
   Duration |-> "0", Width |-> "0", Height |-> "0", ExtraArgs |-> <<>>,
   Version |-> FALSE]

\* cliArgs.Validate: the error it returns, "nil" for none
Validate(c) ==
  IF c.Version THEN "nil"
  ELSE IF c.VideoPath = "" THEN "video path is required"
  ELSE IF Less("0", c.Duration) /\ Less("0", c.ToTime)
       THEN "cannot specify both --duration and --to flags"
  ELSE IF Less("0", c.ToTime) /\ Leq(c.ToTime, c.FromTime)
       THEN "--to time must be after --from time"
  ELSE "nil"

\* the working directory of the process
Cwd == "/v"

\* filepath.Abs(path), for a path that is clean
Abs(path) == IF HasPrefix(path, "/") THEN path ELSE Cwd \o "/" \o path

\* filepath.Dir(path), for an absolute path that is clean
Dir(path) ==
  IF LastIndexOf(path, "/") <= 1 THEN "/" ELSE SubSeq(path, 1, LastIndexOf(path, "/") - 1)

\* filepath.Join(dir, name), for a directory that is clean but for a
\* separator at its end
Join(dir, name) ==
  IF dir # "" /\ Char(dir, Len(dir)) = "/" THEN dir \o name ELSE dir \o "/" \o name

\* where the leftmost match of \[\d+[pk]\] in s that starts at i or after it
\* starts and ends: <<0, 0>> when there is none
RECURSIVE TagFrom(_, _)
TagFrom(s, i) ==
  IF i > Len(s) THEN <<0, 0>>
  ELSE LET e == RunEnd(s, i + 1, DigitChars)
       IN  IF Char(s, i) = "[" /\ e > i /\ e + 2 <= Len(s)
              /\ Char(s, e + 1) \in {"p", "k"} /\ Char(s, e + 2) = "]"
           THEN <<i, e + 2>>
           ELSE TagFrom(s, i + 1)

\* regexp.MustCompile(`\[\d+[pk]\]`).ReplaceAllString(s, "")
RECURSIVE RemoveTags(_)
RemoveTags(s) ==
  LET m == TagFrom(s, 1)
  IN  IF m[1] = 0 THEN s
      ELSE SubSeq(s, 1, m[1] - 1) \o RemoveTags(SubSeq(s, m[2] + 1, Len(s)))

\* the larger of two ints
Max(a, b) == IF Less(a, b) THEN b ELSE a

\* generateFilename: finalWidth and finalHeight.  int(float64(r) * (float64(a)
\* / float64(b))) is the quotient of r * a by b for the sizes of ProbeSizes
\* and the sizes requested here.
FinalSize(sourceWidth, sourceHeight, requestedWidth, requestedHeight) ==
  IF Less("0", requestedWidth) /\ Less("0", requestedHeight)
  THEN <<requestedWidth, requestedHeight>>
  ELSE IF Less("0", requestedWidth)
  THEN <<requestedWidth, Quo(Mul(requestedWidth, sourceHeight), sourceWidth)>>
  ELSE IF Less("0", requestedHeight)
  THEN <<Quo(Mul(requestedHeight, sourceWidth), sourceHeight), requestedHeight>>
  ELSE <<sourceWidth, sourceHeight>>

\* generateFilename: the resolution tag of the longer side
Resolution(maxLength) ==
  IF Leq("3000", maxLength) THEN "4K"
  ELSE IF Leq("1900", maxLength) /\ Leq(maxLength, "2000") THEN "1080p"
  ELSE IF Leq("1200", maxLength) /\ Leq(maxLength, "1400") THEN "720p"
  ELSE ""

\* generateFilename
generateFilename(filePath, sourceWidth, sourceHeight, requestedWidth, requestedHeight) ==
  LET final == FinalSize(sourceWidth, sourceHeight, requestedWidth, requestedHeight)
      resolution == Resolution(Max(final[1], final[2]))
      baseName == TrimSuffix(Base(filePath), Ext(filePath))
      newStem == TrimSpace(RemoveTags(baseName))
  IN  (IF resolution # "" THEN newStem \o " [" \o resolution \o ", x265]"
       ELSE newStem \o " [x265]")
      \o Ext(filePath)

\* SavePath that keeps the name of the input
SavePathKeepsName(videoPath, outputDir, outputFilename) ==
  Join(outputDir, Base(videoPath))

\* run: savePath, "Prevent overwriting the input file"
SavePath(videoPath, outputDir, outputFilename) ==
  LET savePath == Join(outputDir, outputFilename)
  IN  IF videoPath = savePath
      THEN TrimSuffix(videoPath, Ext(videoPath)) \o ".reencoded" \o Ext(videoPath)
      ELSE savePath

\* run: encodeDuration; the difference wraps around in int64
EncodeDuration(c) ==
  IF Less("0", c.ToTime) THEN WrapInt64(Sub(c.ToTime, c.FromTime)) ELSE c.Duration

\* run: the EncodeParams of the call of Encode, for the size that ffprobe
\* has reported
RunParams(c, encoder, probe) ==
  LET videoPath == Abs(c.VideoPath)
      outputDir == IF c.OutputDir # "" THEN c.OutputDir ELSE Dir(videoPath)
      outputFilename ==
        generateFilename(videoPath, probe[1], probe[2], c.Width, c.Height)
      p == EncodeParams(videoPath, SavePath(videoPath, outputDir, outputFilename),
                        c.Quality, c.Is10Bit, c.FromTime, EncodeDuration(c),
                        c.Width, c.Height, c.ExtraArgs)
  IN  IF encoder = "ffmpeg" THEN p ELSE HbEncodeParams(p, c.Denoise)

\* what ffprobe reports of the video: <<Width, Height>>
ProbeSizes == { <<"1920", "1080">>, <<"3840", "2160">>, <<"640", "480">> }

\* command lines that differ in the paths and in the size requested
PathInputs ==
  { [DefaultCli EXCEPT !.VideoPath = v, !.OutputDir = d, !.Width = w, !.Height = h] :
      v \in { "/v/in.mov", "in.mov", "/v/in [x265].mov", "/v/in [720p] [x265].mov",
              "/v/[4k] in [1080p, x265].mkv", "/v/[1080p].mov", "/v/noext", "/in.mp4" },
      d \in {"", "/v", "/v/", "/out", "out"},
      w \in {"0", "1280"}, h \in {"0", "1080"} }

\* command lines that differ in --from, --to and --duration
TimeInputs ==
  { [DefaultCli EXCEPT !.FromTime = f, !.ToTime = t, !.Duration = d] :
      f \in {"0", "30000000000", "-1000000000", "-9223372036854775807"},
      t \in {"0", "10000000000", "90000000000", "-5000000000"},
      d \in {"0", "60000000000", "-5000000000"} }

\* command lines: those above, one without a video path, and --version
CliInputs ==
  PathInputs \cup TimeInputs
  \cup { [DefaultCli EXCEPT !.VideoPath = ""], [DefaultCli EXCEPT !.Version = TRUE] }

\* the parameters of a call without an offset, a duration or a scaling
DefaultParams ==
  EncodeParams("/v/in.mov", "/v/in [x265].mov", "35000", TRUE, "0", "0", "0", "0", <<>>)

\* the parameters of the calls of Encode that are followed to their end
EncodeCalls == {DefaultParams, [DefaultParams EXCEPT !.Duration = "100000000000"]}
HbEncodeCalls == {HbEncodeParams(DefaultParams, FALSE)}

\* values of FromTime and of Duration, and the seconds of each as a text
TimeTexts ==
  { [d |-> "-1000000000", secs |-> "-1"], [d |-> "0", secs |-> "0"],
    [d |-> "500000000", secs |-> "0"], [d |-> "90000000000", secs |-> "90"] }

\* the parameters the argument vector is built for; the paths are those
\* that run makes: an absolute input path, and an output path with the
\* extension of the container
AllParams ==
  { EncodeParams(in, "/v/out [x265].mov", q, b, f.d, t.d, w, h, x) :
      in \in {"/v/in.mov", "/-i"}, q \in {"35000", "22500"}, b \in BOOLEAN,
      f \in TimeTexts, t \in TimeTexts,
      w \in {"-1", "0", "1280"}, h \in {"-1", "0", "720"},
      x \in {<<>>, <<"-i", "/v/in.srt">>} }

\* the same for handbrake.Encode
AllHbParams == { HbEncodeParams(p, d) : p \in AllParams, d \in BOOLEAN }

(***************************************************************************)
(* One Encode invocation: the calling goroutine, the subprocess, and the   *)
(* reader task, the goroutine started by Encode when onProgress is not     *)
(* nil.                                                                    *)
(***************************************************************************)
VARIABLES
  cli,              \* main: the cliArgs
  backend,          \* args.Encoder: "handbrake" or "ffmpeg"
  params,           \* the EncodeParams of the call
  onProgress,       \* the callback of the call: "nil" or "func"
  args,             \* the argument vector, <<>> before it is built
  epc,              \* where main is: "validate", "run", and in Encode "args",
                    \* "probe", "pipe", "start", "go", "wait"; "returned";
                    \* "untracked" when only the reader is followed
  proc,             \* the subprocess: "none", "running", "blocked" (in a write
                    \* to the full pipe), "exited", "killed"
  status,           \* the exit status cmd.Wait has collected; -1 before that,
                    \* and for a subprocess that a signal has ended
  ctxDone,          \* ctx has been cancelled
  killOk,           \* cmd.Cancel (Process.Kill) has been called and returned nil
  result,           \* what Encode has returned, "none" before it returns; for
                    \* main without Encode "invalid", "version", "runErr"
  rdClosed,         \* cmd.Wait has closed the read end of the pipe
  input,            \* everything the subprocess has written to its stdout
  written,          \* the number of writes it has made
  closed,           \* the subprocess has closed its stdout
  stdout,           \* the pipe: what is written and not read yet
  rpc,              \* where the reader is: "idle" before it is started, "read", "body", "invoke", "callback", "done"
  readErr,          \* a read has failed with an error other than io.EOF
  currentLine,      \* iterLines: the strings.Builder
  line,             \* handbrake: the token iterLines has yielded to the loop body
  afterYield,       \* iterLines: where it goes on when yield returns
  yielded,          \* the tokens yielded so far, in order
  totalDuration,    \* ffmpeg: the argument of iterProgress
  iterState,        \* iterProgress: currentProgress, startTime, progressStarted
  clock,            \* time.Now(), nanoseconds
  ticks,            \* advances of the clock so far
  pending,          \* the snapshot in hand, about to be passed to onProgress
  emitted,          \* the snapshots produced so far, in order
  stats,            \* handbrake: what os.Stat has returned so far, in order
  calls,            \* the arguments of the onProgress calls so far, in order
  active            \* onProgress calls that have not returned

vars == <<cli, backend, params, onProgress, args, epc, proc, status, ctxDone, killOk, result, rdClosed, input,
          written, closed, stdout, rpc, readErr, currentLine, line, afterYield,
          yielded, totalDuration, iterState, clock, ticks, pending, emitted,
          stats, calls, active>>

encVars == <<epc, proc, status, ctxDone, killOk, result, rdClosed>>
procVars == <<input, written, closed>>
hbVars == <<currentLine, line, afterYield>>
ffVars == <<totalDuration, iterState>>
clockVars == <<clock, ticks>>

InitCommon ==
  /\ args = <<>>
  /\ input = ""
  /\ written = 0
  /\ closed = FALSE
  /\ stdout = ""
  /\ readErr = FALSE
  /\ currentLine = ""
  /\ line = ""
  /\ afterYield = "read"
  /\ yielded = <<>>
  /\ iterState = [currentProgress |-> ZeroProgress, startTime |-> "zero",
                  progressStarted |-> FALSE]
  /\ clock = "0"
  /\ ticks = 0
  /\ pending = ZeroProgress
  /\ emitted = <<>>
  /\ stats = <<>>
  /\ calls = <<>>
  /\ active = 0

\* the reader task starts; the subprocess runs, and Encode is not followed
InitReader ==
  /\ cli = DefaultCli /\ params = DefaultParams /\ onProgress = "func"
  /\ epc = "untracked" /\ proc = "running" /\ status = -1 /\ rpc = "read"
  /\ ctxDone = FALSE /\ killOk = FALSE /\ result = "none" /\ rdClosed = FALSE

InitHb ==
  /\ backend = "handbrake"
  /\ totalDuration = "0"
  /\ InitCommon /\ InitReader

InitFf ==
  /\ backend = "ffmpeg"
  /\ totalDuration \in TotalDurations
  /\ InitCommon /\ InitReader

\* the reader of handbrake.Encode has a line of ParseLines in hand; the
\* subprocess has written NextLine after it and has exited
InitParse ==
  /\ backend = "handbrake" /\ totalDuration = "0"
  /\ cli = DefaultCli /\ params = DefaultParams /\ onProgress = "func" /\ args = <<>>
  /\ epc = "untracked" /\ proc = "exited" /\ status = -1
  /\ ctxDone = FALSE /\ killOk = FALSE /\ result = "none" /\ rdClosed = FALSE
  /\ \E l \in ParseLines :
       /\ line = l.text
       /\ currentLine = l.text
       /\ yielded = <<l.text>>
       /\ input = l.text \o "\r" \o NextLine
  /\ written = 2 /\ closed = TRUE
  /\ stdout = NextLine
  /\ rpc = "body" /\ afterYield = "read" /\ readErr = FALSE
  /\ iterState = [currentProgress |-> ZeroProgress, startTime |-> "zero",
                  progressStarted |-> FALSE]
  /\ clock = "0" /\ ticks = 0
  /\ pending = ZeroProgress /\ emitted = <<>> /\ stats = <<>>
  /\ calls = <<>> /\ active = 0

\* the reader of ffmpeg.Encode starts on a stream of SepStreams that the
\* subprocess has written before it has exited
InitSeparators ==
  /\ backend = "ffmpeg" /\ totalDuration \in TotalDurations
  /\ cli = DefaultCli /\ params = DefaultParams /\ onProgress = "func" /\ args = <<>>
  /\ epc = "untracked" /\ proc = "exited" /\ status = -1
  /\ ctxDone = FALSE /\ killOk = FALSE /\ result = "none" /\ rdClosed = FALSE
  /\ \E st \in SepStreams :
       /\ input = st.text
       /\ stdout = st.text
       /\ written = Len(st.recs)
  /\ closed = TRUE
  /\ rpc = "read" /\ readErr = FALSE
  /\ currentLine = "" /\ line = "" /\ afterYield = "read" /\ yielded = <<>>
  /\ iterState = [currentProgress |-> ZeroProgress, startTime |-> "zero",
                  progressStarted |-> FALSE]
  /\ clock = "0" /\ ticks = 0
  /\ pending = ZeroProgress /\ emitted = <<>> /\ stats = <<>>
  /\ calls = <<>> /\ active = 0

\* the reader of ffmpeg.Encode has read "progress=continue" at time 0; the
\* time is now one of EtaClocks, and a line of EtaLines is there to be read
\* as the last one
InitEta ==
  /\ backend = "ffmpeg" /\ totalDuration = "100000000000"
  /\ cli = DefaultCli /\ params = DefaultParams /\ onProgress = "func" /\ args = <<>>
  /\ epc = "untracked" /\ proc = "exited" /\ status = -1
  /\ ctxDone = FALSE /\ killOk = FALSE /\ result = "none" /\ rdClosed = FALSE
  /\ \E ln \in EtaLines :
       /\ input = "progress=continue\n" \o ln \o "\n"
       /\ stdout = ln \o "\n"
  /\ written = 2 /\ closed = TRUE
  /\ rpc = "read" /\ readErr = FALSE
  /\ currentLine = "" /\ line = "" /\ afterYield = "read"
  /\ yielded = <<"progress=continue">>
  /\ iterState = [currentProgress |-> ZeroProgress, startTime |-> "0",
                  progressStarted |-> TRUE]
  /\ clock \in EtaClocks /\ ticks = 0
  /\ pending = ZeroProgress /\ emitted = <<>> /\ stats = <<>>
  /\ calls = <<>> /\ active = 0

InitEncode ==
  /\ totalDuration = "0"
  /\ proc = "none" /\ status = -1 /\ rpc = "idle"
  /\ ctxDone = FALSE /\ killOk = FALSE /\ result = "none" /\ rdClosed = FALSE
  /\ InitCommon

\* Encode is called, with a callback or with nil
Init ==
  /\ \/ backend = "handbrake" /\ params \in HbEncodeCalls
     \/ backend = "ffmpeg" /\ params \in EncodeCalls
  /\ epc = "args"
  /\ cli = DefaultCli
  /\ onProgress \in {"nil", "func"}
  /\ InitEncode

\* main is started with a command line of CliInputs
InitMain ==
  /\ backend \in {"handbrake", "ffmpeg"}
  /\ cli \in CliInputs
  /\ params = IF backend = "ffmpeg" THEN DefaultParams
              ELSE HbEncodeParams(DefaultParams, FALSE)
  /\ onProgress = "func"
  /\ epc = "validate"
  /\ InitEncode

\* Encode is called with any of the parameters of AllParams, AllHbParams
InitArgs ==
  /\ \/ backend = "ffmpeg" /\ params \in AllParams
     \/ backend = "handbrake" /\ params \in AllHbParams
  /\ epc = "args"
  /\ cli = DefaultCli /\ onProgress = "func"
  /\ InitEncode

readerVars == <<rpc, readErr, hbVars, yielded, iterState, pending, emitted, stats,
                calls, active>>

\* main: args.Validate(), and the exit for --version
MainValidate ==
  /\ epc = "validate"
  /\ IF Validate(cli) # "nil" THEN epc' = "returned" /\ result' = "invalid"
     ELSE IF cli.Version THEN epc' = "returned" /\ result' = "version"
     ELSE epc' = "run" /\ UNCHANGED result
  /\ UNCHANGED <<cli, backend, params, onProgress, args, proc, status, ctxDone, killOk,
                 rdClosed, procVars, stdout, readerVars, totalDuration, clockVars>>

\* main: run, up to the call of Encode.  It returns an error when the video
\* is not there, when ffprobe fails, or when the output directory cannot be
\* made.
Run ==
  /\ epc = "run"
  /\ \/ epc' = "returned" /\ result' = "runErr" /\ UNCHANGED params
     \/ \E probe \in ProbeSizes :
          /\ params' = RunParams(cli, backend, probe)
          /\ epc' = "args"
          /\ UNCHANGED result
  /\ UNCHANGED <<cli, backend, onProgress, args, proc, status, ctxDone, killOk,
                 rdClosed, procVars, stdout, readerVars, totalDuration, clockVars>>

\* handbrake.Encode: the argument vector is built
HbBuildArgs ==
  /\ backend = "handbrake" /\ epc = "args"
  /\ args' = HbArgs(params)
  /\ epc' = "pipe"
  /\ UNCHANGED <<cli, backend, params, onProgress, proc, status, ctxDone, killOk, result, rdClosed,
                 procVars, stdout, readerVars, totalDuration, clockVars>>

\* ffmpeg.Encode: the argument vector is built
FfBuildArgs ==
  /\ backend = "ffmpeg" /\ epc = "args"
  /\ args' = FfArgs(params)
  /\ epc' = "probe"
  /\ UNCHANGED <<cli, backend, params, onProgress, proc, status, ctxDone, killOk, result, rdClosed,
                 procVars, stdout, readerVars, totalDuration, clockVars>>

\* ffmpeg.Encode: the total duration is params.Duration when that is
\* positive, and the duration ffprobe reports otherwise
FfProbe ==
  /\ backend = "ffmpeg" /\ epc = "probe"
  /\ IF Less("0", params.Duration)
     THEN /\ totalDuration' = params.Duration
          /\ epc' = "pipe"
          /\ UNCHANGED result
     ELSE \/ /\ ~ctxDone
             /\ totalDuration' \in TotalDurations
             /\ epc' = "pipe"
             /\ UNCHANGED result
          \/ /\ epc' = "returned"
             /\ result' = IF ctxDone THEN "canceled" ELSE "probeErr"
             /\ UNCHANGED totalDuration
  /\ UNCHANGED <<cli, backend, params, onProgress, args, proc, status, ctxDone, killOk, rdClosed,
                 procVars, stdout, readerVars, clockVars>>

\* Encode: cmd.StdoutPipe()
StdoutPipe ==
  /\ epc = "pipe"
  /\ \/ epc' = "start" /\ UNCHANGED result
     \/ epc' = "returned" /\ result' = "pipeErr"
  /\ UNCHANGED <<cli, backend, params, onProgress, args, proc, status, ctxDone, killOk, rdClosed, procVars, stdout, readerVars,
                 totalDuration, clockVars>>

StartIgnoresErr ==
  /\ epc = "start"
  /\ \/ ~ctxDone /\ epc' = "go" /\ proc' = "running" /\ UNCHANGED result
     \/ epc' = "go" /\ UNCHANGED proc
        /\ result' = IF ctxDone THEN "canceled" ELSE "startErr"
  /\ UNCHANGED <<cli, backend, params, onProgress, args, status, ctxDone, killOk, rdClosed, procVars, stdout,
                 readerVars, totalDuration, clockVars>>

\* Encode: cmd.Start(), which fails with ctx.Err() when ctx is done already
Start ==
  /\ epc = "start"
  /\ \/ ~ctxDone /\ epc' = "go" /\ proc' = "running" /\ UNCHANGED result
     \/ epc' = "returned" /\ UNCHANGED proc
        /\ result' = IF ctxDone THEN "canceled" ELSE "startErr"
  /\ UNCHANGED <<cli, backend, params, onProgress, args, status, ctxDone, killOk, rdClosed, procVars, stdout,
                 readerVars, totalDuration, clockVars>>

\* Encode: "if onProgress != nil { go func() { ... }() }"
GoReader ==
  /\ epc = "go"
  /\ epc' = "wait"
  /\ rpc' = IF onProgress # "nil" THEN "read" ELSE rpc
  /\ UNCHANGED <<cli, backend, params, onProgress, args, proc, status, ctxDone, killOk, result, rdClosed, procVars, stdout,
                 readErr, hbVars, yielded, ffVars, clockVars, pending, emitted, stats,
                 calls, active>>

\* the governing context is cancelled (main: an interrupt or SIGTERM)
Cancel ==
  /\ ~ctxDone /\ epc \notin {"untracked", "returned"}
  /\ rpc \in {"idle", "read"} /\ stdout = ""
  /\ ctxDone' = TRUE
  /\ UNCHANGED <<cli, backend, params, onProgress, args, epc, proc, status, killOk, result, rdClosed, procVars, stdout,
                 readerVars, totalDuration, clockVars>>

\* exec.CommandContext: ctx is done, and cmd.Cancel kills the subprocess.
\* Process.Kill returns nil also for a process that has exited and has not
\* been waited for yet.
Kill ==
  /\ ctxDone /\ ~killOk /\ epc \in {"go", "wait"}
  /\ killOk' = TRUE
  /\ proc' = IF proc \in {"running", "blocked"} THEN "killed" ELSE proc
  /\ closed' = TRUE
  /\ UNCHANGED <<cli, backend, params, onProgress, args, epc, status, ctxDone, result, rdClosed, input, written,
                 stdout, readerVars, totalDuration, clockVars>>

\* what cmd.Wait() returns for a subprocess of exit status st
WaitResultIgnoresStatus(st) == IF killOk THEN "canceled" ELSE "nil"
WaitResult(st) ==
  IF st # 0 THEN "exitErr"
  ELSE IF killOk THEN "canceled" ELSE "nil"

\* Wait that returns when the reader task has ended
WaitJoinsReader ==
  /\ epc = "wait" /\ proc \in {"exited", "killed"} /\ rpc \in {"idle", "done"}
  /\ \E st \in (IF proc = "killed" THEN {-1} ELSE ExitStatuses) :
       status' = st /\ result' = WaitResult(st)
  /\ epc' = "returned"
  /\ rdClosed' = TRUE
  /\ UNCHANGED <<cli, backend, params, onProgress, args, proc, ctxDone, killOk, procVars, stdout, readerVars,
                 totalDuration, clockVars>>

\* Encode: cmd.Wait() returns, and Encode returns.  Wait gives an
\* *ExitError for a subprocess that a signal has ended or that has exited
\* with a status other than 0; for status 0 it gives ctx.Err() when
\* cmd.Cancel has returned nil, and nil otherwise.  It closes the read end
\* of the pipe.
Wait ==
  /\ epc = "wait" /\ proc \in {"exited", "killed"}
  /\ \E st \in (IF proc = "killed" THEN {-1} ELSE ExitStatuses) :
       status' = st /\ result' = WaitResult(st)
  /\ epc' = "returned"
  /\ rdClosed' = TRUE
  /\ UNCHANGED <<cli, backend, params, onProgress, args, proc, ctxDone, killOk, procVars, stdout, readerVars,
                 totalDuration, clockVars>>

\* the read end of the pipe may have been closed
PipeMayBeClosed == rdClosed \/ epc = "untracked"

\* how many pieces the subprocess writes at most
WriteBound ==
  IF backend = "handbrake"
  THEN (IF epc = "untracked" THEN MaxChunks ELSE MaxEncodeChunks)
  ELSE (IF epc = "untracked" THEN MaxLines ELSE MaxEncodeLines)

\* the pipe takes a piece: it is empty, and the reader, if it has been
\* started, waits in a read.  What the reader does depends on the order of
\* the bytes only, so a piece is written when the reader has taken the one
\* before it.
PipeHasRoom == stdout = "" /\ (rpc = "read" \/ (rpc = "idle" /\ epc # "untracked"))

\* HandBrakeCLI writes a piece of its output
HbWrite ==
  /\ backend = "handbrake" /\ proc \in {"running", "blocked"} /\ written < WriteBound
  /\ PipeHasRoom
  /\ \E c \in HbChunks : input' = input \o c /\ stdout' = c
  /\ written' = written + 1
  /\ proc' = "running"
  /\ UNCHANGED <<cli, backend, params, onProgress, args, epc, status, ctxDone, killOk, result, rdClosed, closed, rpc, readErr, hbVars, yielded, ffVars, clockVars,
                 pending, emitted, stats, calls, active>>

\* ffmpeg writes a line of its -progress output
FfWrite ==
  /\ backend = "ffmpeg" /\ proc \in {"running", "blocked"} /\ written < WriteBound
  /\ PipeHasRoom
  /\ \E ln \in FfLines : input' = input \o ln \o "\n" /\ stdout' = ln \o "\n"
  /\ written' = written + 1
  /\ proc' = "running"
  /\ UNCHANGED <<cli, backend, params, onProgress, args, epc, status, ctxDone, killOk, result, rdClosed, closed, rpc, readErr, hbVars, yielded, ffVars, clockVars,
                 pending, emitted, stats, calls, active>>

\* the subprocess calls write while the pipe is full, and waits for room
WriteBlocks ==
  /\ epc # "untracked" /\ proc = "running" /\ written < WriteBound
  /\ stdout # ""
  /\ proc' = "blocked"
  /\ UNCHANGED <<cli, backend, params, onProgress, args, epc, status, ctxDone, killOk, result,
                 rdClosed, procVars, stdout, readerVars, totalDuration, clockVars>>

\* the subprocess exits, and the write end of the pipe is closed.  When only
\* the reader is followed, it exits when the reader has taken what it wrote.
Exit ==
  /\ proc = "running"
  /\ epc = "untracked" => rpc = "read" /\ stdout = ""
  /\ proc' = "exited"
  /\ closed' = TRUE
  /\ UNCHANGED <<cli, backend, params, onProgress, args, epc, status, ctxDone, killOk, result, rdClosed, input,
                 written, stdout, rpc, readErr, hbVars, yielded, ffVars, clockVars,
                 pending, emitted, stats, calls, active>>

\* iterLines: reader.Read returns one byte
HbReadByte ==
  /\ backend = "handbrake" /\ rpc = "read" /\ stdout # "" /\ ~rdClosed
  /\ stdout' = Tail(stdout)
  /\ IF Head(stdout) \in {"\r", "\n"}
     THEN IF Len(currentLine) > 0
          THEN /\ line' = currentLine
               /\ yielded' = Append(yielded, currentLine)
               /\ afterYield' = "read"
               /\ rpc' = "body"
               /\ UNCHANGED currentLine
          ELSE UNCHANGED <<line, yielded, afterYield, rpc, currentLine>>
     ELSE /\ currentLine' = currentLine \o Head(stdout)
          /\ UNCHANGED <<line, yielded, afterYield, rpc>>
  /\ UNCHANGED <<cli, backend, params, onProgress, args, encVars, procVars, readErr, ffVars, clockVars, pending, emitted, stats,
                 calls, active>>

\* HbReadEOF without "Yield any remaining content"
HbReadEOFDropsRest ==
  /\ backend = "handbrake" /\ rpc = "read" /\ stdout = "" /\ closed /\ ~rdClosed
  /\ rpc' = "done"
  /\ UNCHANGED <<cli, backend, params, onProgress, args, encVars, procVars, stdout, readErr, hbVars, yielded, ffVars, clockVars,
                 pending, emitted, stats, calls, active>>

\* iterLines: reader.Read returns io.EOF
HbReadEOF ==
  /\ backend = "handbrake" /\ rpc = "read" /\ stdout = "" /\ closed /\ ~rdClosed
  /\ IF Len(currentLine) > 0
     THEN /\ line' = currentLine
          /\ yielded' = Append(yielded, currentLine)
          /\ afterYield' = "done"
          /\ rpc' = "body"
     ELSE /\ rpc' = "done"
          /\ UNCHANGED <<line, yielded, afterYield>>
  /\ UNCHANGED <<cli, backend, params, onProgress, args, encVars, procVars, stdout, readErr, currentLine, ffVars, clockVars,
                 pending, emitted, stats, calls, active>>

\* HbReadError that yields the remaining content as io.EOF does
HbReadErrorYieldsRest ==
  /\ backend = "handbrake" /\ rpc = "read" /\ PipeMayBeClosed
  /\ readErr' = TRUE
  /\ IF Len(currentLine) > 0
     THEN /\ line' = currentLine
          /\ yielded' = Append(yielded, currentLine)
          /\ afterYield' = "done"
          /\ rpc' = "body"
     ELSE /\ rpc' = "done"
          /\ UNCHANGED <<line, yielded, afterYield>>
  /\ UNCHANGED <<cli, backend, params, onProgress, args, encVars, procVars, stdout, currentLine, ffVars,
                 clockVars, pending, emitted, stats, calls, active>>

\* HbReadError that goes on with the next read
HbReadErrorRetries ==
  /\ backend = "handbrake" /\ rpc = "read" /\ PipeMayBeClosed
  /\ readErr' = TRUE
  /\ UNCHANGED <<cli, backend, params, onProgress, args, encVars, procVars, stdout, rpc, hbVars, yielded,
                 ffVars, clockVars, pending, emitted, stats, calls, active>>

\* iterLines: reader.Read returns another error (the pipe has been closed)
HbReadError ==
  /\ backend = "handbrake" /\ rpc = "read" /\ PipeMayBeClosed
  /\ readErr' = TRUE
  /\ rpc' = "done"
  /\ UNCHANGED <<cli, backend, params, onProgress, args, encVars, procVars, stdout, hbVars, yielded, ffVars, clockVars,
                 pending, emitted, stats, calls, active>>

\* iterLines goes on after yield has returned true
Resume ==
  /\ rpc' = afterYield
  /\ currentLine' = IF backend = "handbrake" /\ afterYield = "read" THEN "" ELSE currentLine

\* Encode (handbrake): the loop body, parseProgress(line, params.OutputPath)
HbParse ==
  /\ backend = "handbrake" /\ rpc = "body"
  /\ \E stat \in StatResults :
       \E r \in {parseProgress(line, stat)} :
           IF r.ok
           THEN /\ pending' = r.progress
                /\ emitted' = Append(emitted, r.progress)
                /\ stats' = Append(stats, stat)
                /\ rpc' = "invoke"
                /\ UNCHANGED currentLine
           ELSE /\ Resume
                /\ UNCHANGED <<pending, emitted, stats>>
  /\ UNCHANGED <<cli, backend, params, onProgress, args, encVars, procVars, stdout, readErr, line, afterYield, yielded,
                 ffVars, clockVars, calls, active>>

\* iterProgress: scanner.Scan() returns true, and the loop body runs
FfScanLine ==
  /\ backend = "ffmpeg" /\ rpc = "read" /\ stdout # ""
  /\ \E tok \in {ScanLines(stdout)} :
     \E r \in {iterProgressLine(iterState, tok.token, totalDuration, clock, ovf) :
                 ovf \in ConversionOverflows} :
         /\ stdout' = tok.rest
         /\ yielded' = Append(yielded, tok.token)
         /\ iterState' = r.state
         /\ IF r.yield
            THEN /\ pending' = r.state.currentProgress
                 /\ emitted' = Append(emitted, r.state.currentProgress)
                 /\ rpc' = "invoke"
            ELSE UNCHANGED <<pending, emitted, rpc>>
  /\ UNCHANGED <<cli, backend, params, onProgress, args, encVars, procVars, readErr, hbVars, totalDuration, clockVars,
                 stats, calls, active>>

\* iterProgress: scanner.Scan() returns false at the end of the stream
FfScanEOF ==
  /\ backend = "ffmpeg" /\ rpc = "read" /\ stdout = "" /\ closed
  /\ rpc' = "done"
  /\ UNCHANGED <<cli, backend, params, onProgress, args, encVars, procVars, stdout, readErr, hbVars, yielded, ffVars,
                 clockVars, pending, emitted, stats, calls, active>>

\* Invoke that starts onProgress without waiting for it to return
InvokeAsync ==
  /\ rpc = "invoke"
  /\ calls' = Append(calls, pending)
  /\ active' = active + 1
  /\ Resume
  /\ UNCHANGED <<cli, backend, params, onProgress, args, encVars, procVars, stdout, readErr, line, afterYield, yielded, ffVars,
                 clockVars, pending, emitted, stats>>

\* iterProgress: the read of scanner.Scan() fails (the pipe has been
\* closed), and Scan returns false; what was not read is lost
FfScanError ==
  /\ backend = "ffmpeg" /\ rpc = "read" /\ PipeMayBeClosed
  /\ readErr' = TRUE
  /\ rpc' = "done"
  /\ UNCHANGED <<cli, backend, params, onProgress, args, encVars, procVars, stdout, hbVars, yielded, ffVars,
                 clockVars, pending, emitted, stats, calls, active>>

\* Encode: onProgress(progress) is called
Invoke ==
  /\ rpc = "invoke"
  /\ calls' = Append(calls, pending)
  /\ active' = active + 1
  /\ rpc' = "callback"
  /\ UNCHANGED <<cli, backend, params, onProgress, args, encVars, procVars, stdout, readErr, hbVars, yielded, ffVars,
                 clockVars, pending, emitted, stats>>

\* Encode: onProgress returns, and the iterator goes on
Return ==
  /\ rpc = "callback"
  /\ active' = active - 1
  /\ Resume
  /\ UNCHANGED <<cli, backend, params, onProgress, args, encVars, procVars, stdout, readErr, line, afterYield, yielded,
                 ffVars, clockVars, pending, emitted, stats, calls>>

\* wall-clock time passes while the reader waits for the next line of ffmpeg
Tick ==
  /\ backend = "ffmpeg" /\ rpc = "read" /\ stdout # "" /\ ticks < MaxTicks
  /\ \E d \in ClockSteps : clock' = Add(clock, d)
  /\ ticks' = ticks + 1
  /\ UNCHANGED <<cli, backend, params, onProgress, args, encVars, procVars, stdout, rpc, readErr, hbVars, yielded, ffVars,
                 pending, emitted, stats, calls, active>>

NextHb == HbWrite \/ HbReadByte \/ HbReadEOF \/ HbReadError \/ HbParse
NextFf == FfWrite \/ FfScanLine \/ FfScanEOF \/ FfScanError \/ Tick
NextCall == Exit \/ Invoke \/ Return
\* errors.Is(err, context.Canceled), for the error err that Encode returns
IsCanceled(r) == r = "canceled"

NextEncode ==
  HbBuildArgs \/ FfBuildArgs \/ FfProbe \/ StdoutPipe \/ Start \/ GoReader \/ Cancel \/ Kill \/ Wait
  \/ WriteBlocks

Next == NextEncode \/ NextHb \/ NextFf \/ NextCall

Spec == Init /\ [][Next]_vars

\* the steps of the reader task, of the goroutine that runs Encode, and of
\* a subprocess whose write the pipe has room for: each is taken when it
\* stays possible.  The callback returns; the subprocess need not write
\* more nor exit, and nobody need cancel.
\* The step of FfScanLine is told by the line it takes from the pipe, and
\* the step of HbParse by the reader leaving the loop body.
FfScanTakesLine ==
  /\ backend = "ffmpeg" /\ rpc = "read" /\ stdout # ""
  /\ stdout' = ScanLines(stdout).rest
HbBodyRuns ==
  /\ backend = "handbrake" /\ rpc = "body"
  /\ rpc' \in {"invoke", "read", "done"}
ReaderStep ==
  HbReadByte \/ HbReadEOF \/ HbReadError
  \/ FfScanEOF \/ FfScanError \/ Invoke \/ Return
EncodeStep ==
  HbBuildArgs \/ FfBuildArgs \/ FfProbe \/ StdoutPipe \/ Start \/ GoReader \/ Wait
WriteCompletes == proc = "blocked" /\ (HbWrite \/ FfWrite)
Fairness ==
  /\ WF_vars(ReaderStep) /\ WF_stdout(FfScanTakesLine) /\ WF_rpc(HbBodyRuns)
  /\ WF_vars(EncodeStep)
  /\ WF_vars(Kill) /\ WF_vars(WriteCompletes)
SpecLive == Init /\ [][Next]_vars /\ Fairness

\* the handbrake backend alone, and the ffmpeg backend alone
NextParse == HbReadByte \/ HbReadEOF \/ HbParse \/ Invoke \/ Return
SpecParse == InitParse /\ [][NextParse]_vars
NextSeparators == FfScanLine \/ FfScanEOF \/ Invoke \/ Return
SpecSeparators == InitSeparators /\ [][NextSeparators]_vars
SpecEta == InitEta /\ [][NextSeparators]_vars
SpecMain == InitMain /\ [][MainValidate \/ Run \/ HbBuildArgs \/ FfBuildArgs]_vars
SpecArgs == InitArgs /\ [][HbBuildArgs \/ FfBuildArgs]_vars
SpecHb == InitHb /\ [][NextHb \/ NextCall]_vars
SpecFf == InitFf /\ [][NextFf \/ NextCall]_vars

(***************************************************************************)
(* Properties                                                              *)
(***************************************************************************)
Terminators == {"\r", "\n"}

\* s split at every terminator, the empty segments discarded
RECURSIVE SplitFields(_)
SplitFields(s) ==
  IF s = "" THEN <<>>
  ELSE IF Head(s) \in Terminators THEN SplitFields(Tail(s))
  ELSE LET n == CHOOSE n \in 1..Len(s) :
                  /\ \A k \in 1..n : Char(s, k) \notin Terminators
                  /\ (n = Len(s) \/ Char(s, n + 1) \in Terminators)
       IN  <<SubSeq(s, 1, n)>> \o SplitFields(SubSeq(s, n + 1, Len(s)))

\* C1: the tokens iterLines yields are never empty, and over a stream that
\* ends with EOF they are, in order, the non-empty segments between the
\* "\r" and "\n" bytes of the stream, the unterminated last one included
C1_TokensAreSplit ==
  backend = "handbrake" =>
    /\ \A i \in DOMAIN yielded : yielded[i] # ""
    /\ (rpc = "done" /\ ~readErr) => yielded = SplitFields(input)

\* a stream with "\r\n" inside and an unterminated last segment, read to EOF
C1_Witness ==
  /\ backend = "handbrake" /\ rpc = "done" /\ ~readErr
  /\ \E i \in 1..(Len(input) - 1) : SubSeq(input, i, i + 1) = "\r\n"
  /\ Char(input, Len(input)) \notin Terminators
  /\ Len(yielded) = 2

\* the text contains "Encoding: task N of M, P %": N and M are runs of
\* digits, P is a run of digits and dots
ContainsMarker(t) ==
  \E i \in 1..Len(t) :
    /\ LitAt(t, i, "Encoding: task ")
    /\ \E n \in 1..Len(t) :
         /\ AllIn(SubSeq(t, i + 15, i + 14 + n), DigitChars)
         /\ LitAt(t, i + 15 + n, " of ")
         /\ \E m \in 1..Len(t) :
              /\ AllIn(SubSeq(t, i + 19 + n, i + 18 + n + m), DigitChars)
              /\ LitAt(t, i + 19 + n + m, ", ")
              /\ \E p \in 1..Len(t) :
                   /\ AllIn(SubSeq(t, i + 21 + n + m, i + 20 + n + m + p), ReNum)
                   /\ LitAt(t, i + 21 + n + m + p, " %")

MarkedTokens == {i \in DOMAIN yielded : ContainsMarker(yielded[i])}

\* C2: parseProgress reports no match for a token without the marker, the
\* token in hand when onProgress is called has the marker, and onProgress
\* has been called at most once per token with the marker read so far
C2_NoCallbackWithoutMarker ==
  backend = "handbrake" =>
    /\ \A i \in DOMAIN yielded : \A stat \in StatResults :
         ~ContainsMarker(yielded[i]) => ~parseProgress(yielded[i], stat).ok
    /\ rpc \in {"invoke", "callback"} => ContainsMarker(line)
    /\ Len(calls) <= Cardinality(MarkedTokens)

\* the stream is read to the end: a token without the marker and one with it
\* were yielded, and onProgress was called once
C2_Witness ==
  /\ backend = "handbrake" /\ rpc = "done"
  /\ Len(yielded) = 2 /\ Cardinality(MarkedTokens) = 1 /\ Len(calls) = 1

(***************************************************************************)
(* ffmpeg: the lines consumed so far and the snapshots they triggered      *)
(***************************************************************************)
Consumed(k) == TrimSpace(yielded[k])

IsOutTime(k) == HasPrefix(Consumed(k), "out_time_ms=")
OutTimeValue(k) == ParseInt(TrimPrefix(Consumed(k), "out_time_ms="))
IsParsedOutTime(k) == IsOutTime(k) /\ ~OutTimeValue(k).err

OutTimeLines == {k \in DOMAIN yielded : IsOutTime(k)}
ParsedOutTimeLines == {k \in DOMAIN yielded : IsParsedOutTime(k)}

\* the line that triggered the i-th snapshot: the i-th parsed out_time_ms= line
Trigger(i) ==
  LET P == ParsedOutTimeLines
  IN  CHOOSE k \in P : Cardinality({j \in P : j <= k}) = i

KnownTotal == backend = "ffmpeg" /\ Less("0", totalDuration)

\* C3, as stated: one snapshot for each out_time_ms= line consumed
C3_OnePerOutTimeLine ==
  KnownTotal => Len(emitted) = Cardinality(OutTimeLines)

\* C3, amended: with a known total duration, after every prefix of the
\* stream the number of snapshots emitted is the number of out_time_ms=
\* lines consumed whose value parses as a 64-bit integer
C3_OnePerParsedOutTimeLine ==
  KnownTotal => Len(emitted) = Cardinality(ParsedOutTimeLines)

\* the stream is read to the end: an out_time_ms= line with a value that does
\* not parse, one with a value that does, and one snapshot
C3_Witness ==
  /\ KnownTotal /\ rpc = "done"
  /\ Cardinality(OutTimeLines) = 2 /\ Cardinality(ParsedOutTimeLines) = 1
  /\ Len(emitted) = 1 /\ Len(yielded) = 3

\* C4: with total duration zero no snapshot is emitted and onProgress is
\* never called
C4_NoSnapshotWithoutTotal ==
  (backend = "ffmpeg" /\ totalDuration = "0") =>
    /\ emitted = <<>> /\ calls = <<>>
    /\ rpc \notin {"invoke", "callback"}

\* total duration zero, and a stream with the marker and a parsed
\* out_time_ms= line has been read to the end
C4_Witness ==
  /\ backend = "ffmpeg" /\ totalDuration = "0" /\ rpc = "done"
  /\ ParsedOutTimeLines # {}
  /\ \E k \in DOMAIN yielded : HasPrefix(Consumed(k), "progress=continue")

\* min(100, elapsed/total*100) rounded to 2 decimals, for an elapsed time of
\* us microseconds and a total of total nanoseconds
ExpectedPercent(us, total) ==
  IF Less(total, Mul(us, "1000")) THEN "100000"
  ELSE Mul(QuoRound(Mul(us, "10000000"), total), "10")

\* C5: every snapshot has percent = min(100, elapsed/total*100) rounded to
\* 2 decimals, elapsed being the value of its out_time_ms= line taken as
\* microseconds
C5_PercentOfElapsed ==
  KnownTotal =>
    \A i \in DOMAIN emitted :
      emitted[i].Percent = ExpectedPercent(OutTimeValue(Trigger(i)).val, totalDuration)

\* C6: every EncodeProgress passed to onProgress has 0 <= percent <= 100
C6_PercentInRange ==
  \A i \in DOMAIN calls :
    Leq("0", calls[i].Percent) /\ Leq(calls[i].Percent, "100000")

\* a progress=continue line has been consumed before line k
StartedBefore(k) ==
  \E j \in 1..(k - 1) : HasPrefix(Consumed(j), "progress=continue")

\* C7: a snapshot whose ETA is not computed (no marker before its line, or
\* percent not strictly between 0 and 100) has ETA zero
C7_EtaZeroUnlessComputed ==
  KnownTotal =>
    \A i \in DOMAIN emitted :
      ~( /\ StartedBefore(Trigger(i))
         /\ Less("0", emitted[i].Percent) /\ Less(emitted[i].Percent, "100000") )
      => emitted[i].ETA = "0"

IsMarker(k) == HasPrefix(Consumed(k), "progress=continue")
Markers == {k \in DOMAIN yielded : IsMarker(k)}

\* C8: the start timestamp is unset until a progress=continue line has been
\* consumed; the first such line sets it to the time it is consumed at, and
\* no later line, progress=continue or other, changes it
C8_StartArmedOnce ==
  [][ backend = "ffmpeg" =>
        /\ (Markers = {}) <=> (iterState.startTime = "zero")
        /\ (Markers' = {}) <=> (iterState'.startTime = "zero")
        /\ (Markers = {} /\ Markers' # {}) => iterState'.startTime = clock
        /\ (Markers # {}) => iterState'.startTime = iterState.startTime ]_vars

\* two progress=continue lines have been consumed, time has passed since the
\* first, and the timestamp is the time of the first
C8_Witness ==
  /\ backend = "ffmpeg" /\ rpc = "done"
  /\ Len(yielded) = 2 /\ Cardinality(Markers) = 2
  /\ iterState.startTime = "0" /\ clock = "2500000000"

\* the lines before line k that have the prefix
Before(k, prefix) == {j \in 1..(k - 1) : HasPrefix(Consumed(j), prefix)}

Last(S) == CHOOSE j \in S : \A h \in S : h <= j

\* the value of the last fps= line before line k that strconv.ParseFloat
\* accepts, "0" when there is none
LastFPS(k) ==
  LET S == {j \in Before(k, "fps=") : ~ParseFloat(TrimPrefix(Consumed(j), "fps=")).err}
  IN  IF S = {} THEN "0" ELSE ParseFloat(TrimPrefix(Consumed(Last(S)), "fps=")).val

\* the value of the last total_size= line before line k that strconv.ParseInt
\* accepts, "0" when there is none
LastTotalSize(k) ==
  LET S == {j \in Before(k, "total_size=") :
              ~ParseInt(TrimPrefix(Consumed(j), "total_size=")).err}
  IN  IF S = {} THEN "0" ELSE ParseInt(TrimPrefix(Consumed(Last(S)), "total_size=")).val

\* C9: every snapshot carries the value of the last parseable fps= line and
\* of the last parseable total_size= line before its out_time_ms= line, and
\* zero for a field with no such line
C9_LatestSpeedAndSize ==
  KnownTotal =>
    \A i \in DOMAIN emitted :
      LET k == Trigger(i)
      IN  /\ emitted[i].FPSAvg = LastFPS(k)
          /\ emitted[i].CurrentSize = LastTotalSize(k)

\* a fps= line with a value, one without, and the snapshot of the
\* out_time_ms= line after them carries the value of the first
C9_Witness ==
  /\ KnownTotal /\ rpc = "done" /\ Len(yielded) = 3
  /\ Consumed(1) = "fps=25.5" /\ Consumed(2) = "fps=N/A"
  /\ Len(calls) = 1 /\ calls[1].FPSAvg = "25500" /\ calls[1].CurrentSize = "0"

\* C10: at most one onProgress call is in progress, and only while the
\* reader is inside it; the calls made so far are, in order, the snapshots
\* produced so far, all of them but the one the reader is about to pass
C10_CallbacksInOrder ==
  /\ active \in {0, 1}
  /\ (active = 1) <=> (rpc = "callback")
  /\ Len(calls) = Len(emitted) - (IF rpc = "invoke" THEN 1 ELSE 0)
  /\ calls = SubSeq(emitted, 1, Len(calls))
  /\ rpc = "invoke" => pending = emitted[Len(emitted)]

\* the stream is read to the end, and two different snapshots have been
\* passed to onProgress
C10_Witness ==
  /\ rpc = "done" /\ active = 0
  /\ Len(calls) = 2 /\ calls = emitted /\ calls[1] # calls[2]
(***************************************************************************)
(* Encode and the subprocess                                               *)
(***************************************************************************)
\* C11: when the subprocess exits with a status other than 0, Encode returns
\* an error that carries the exit error, whatever snapshots were delivered;
\* when it exits with status 0 and ctx is not cancelled, Encode returns nil
C11_ResultFollowsExitStatus ==
  epc = "returned" /\ proc = "exited" =>
    /\ status # 0 => result = "exitErr"
    /\ status = 0 /\ ~ctxDone => result = "nil"

C11_Witness ==
  /\ epc = "returned" /\ proc = "exited" /\ status # 0
  /\ result = "exitErr" /\ Len(calls) > 0
\* C12, as stated: when ctx is cancelled after the subprocess has started and
\* before it has exited, the subprocess is ended and the error that Encode
\* returns satisfies errors.Is(err, context.Canceled)
C12_CancelledIsCanceled ==
  epc = "returned" /\ ctxDone /\ proc = "killed" => IsCanceled(result)

\* C13: when cmd.StdoutPipe or cmd.Start fails, Encode returns that failure
\* at once: the reader task is not started, onProgress is never called and
\* the subprocess is not waited for
C13_SetupFailureReturnsAtOnce ==
  result \in {"pipeErr", "startErr"} \/ (result = "canceled" /\ proc = "none") =>
    /\ epc = "returned" /\ proc = "none"
    /\ rpc = "idle" /\ calls = <<>> /\ active = 0
    /\ status = -1 /\ ~rdClosed

C13_Witness ==
  /\ epc = "returned" /\ result = "startErr"
  /\ rpc = "idle" /\ calls = <<>>

(***************************************************************************)
(* handbrake: parseProgress                                                *)
(***************************************************************************)
\* C16: each match takes its own os.Stat of the output path, and the size of
\* its snapshot is the size that stat reports, or zero when the stat fails;
\* the match is reported all the same
C16_SizeIsFreshStat ==
  backend = "handbrake" =>
    /\ Len(stats) = Len(emitted)
    /\ Len(emitted) = Cardinality(MarkedTokens)
                        - (IF rpc = "body" /\ ContainsMarker(line) THEN 1 ELSE 0)
    /\ \A i \in DOMAIN emitted :
         emitted[i].CurrentSize = IF stats[i].err THEN "0" ELSE stats[i].size

\* two matches of one stream: the stat of the first has failed, the stat of
\* the second has not
C16_Witness ==
  /\ backend = "handbrake" /\ Len(calls) = 2
  /\ stats[1].err /\ calls[1].CurrentSize = "0" /\ calls[1].Percent # "0"
  /\ ~stats[2].err /\ calls[2].CurrentSize = "1048576"

\* the number and the duration that a text of NumberTexts and of
\* DurationTexts denotes
IsNumber(t) == \E x \in NumberTexts : x.text = t
NumberOf(t) == CHOOSE x \in NumberTexts : x.text = t
IsDuration(t) == \E x \in DurationTexts : x.text = t
DurationOf(t) == (CHOOSE x \in DurationTexts : x.text = t).val

\* parseProgress has returned for the first line, with a match
FirstParsed == rpc = "invoke" /\ Len(emitted) = 1
\* parseProgress has returned for the first line, without a match
FirstUnmatched == rpc = "read" /\ Len(yielded) = 1 /\ emitted = <<>>

\* C14: for a line with the marker "Encoding: task N of M, P %" parseProgress
\* reports a match and the percent P rounded to one decimal; with the clause
\* "(..., avg F fps, ETA D)" after the marker the speed is F and the ETA is the
\* duration D, and without the clause both are zero
C14_FieldsOfTheLine ==
  /\ ~FirstUnmatched
  /\ FirstParsed =>
       \A l \in ParseLines :
         l.text = line /\ IsNumber(l.p) =>
           /\ emitted[1].Percent = NumberOf(l.p).r1
           /\ l.f = "" => emitted[1].FPSAvg = "0" /\ emitted[1].ETA = "0"
           /\ l.f # "" /\ IsNumber(l.f) /\ IsDuration(l.d) =>
                /\ emitted[1].FPSAvg = NumberOf(l.f).val
                /\ emitted[1].ETA = DurationOf(l.d)

\* the example line: percent 42.5, speed 6.9, ETA 1m30s
C14_Witness ==
  /\ FirstParsed
  /\ line = "Encoding: task 1 of 1, 42.5 % (7.3 fps, avg 6.9 fps, ETA 00h01m30s)"
  /\ emitted[1].Percent = "42500" /\ emitted[1].FPSAvg = "6900"
  /\ emitted[1].ETA = "90000000000"

\* C15, as stated: a percent, a speed or an ETA whose text does not parse is
\* zero in the snapshot, the other fields have their parsed values, the match
\* is reported, and the line that follows is processed
C15_UnparsedIsZero ==
  /\ ~FirstUnmatched
  /\ rpc = "done" => Len(emitted) = 2 /\ emitted[2].Percent = "5000"
  /\ FirstParsed =>
       \A l \in ParseLines :
         l.text = line =>
           /\ emitted[1].Percent = IF IsNumber(l.p) THEN NumberOf(l.p).r1 ELSE "0"
           /\ l.f # "" =>
                /\ emitted[1].FPSAvg = IF IsNumber(l.f) THEN NumberOf(l.f).val ELSE "0"
                /\ emitted[1].ETA = IF IsDuration(l.d) THEN DurationOf(l.d) ELSE "0"

(***************************************************************************)
(* ffmpeg: lines that are not parsed                                       *)
(***************************************************************************)
\* lines of FfLines with a recognised prefix and a value that does not parse
UnparsedLines == {"fps=N/A", "total_size=N/A", "out_time_ms=N/A"}
\* lines of FfLines with none of the recognised prefixes
UnrecognisedLines == {"frame=10"}

\* C17, as stated: after a recognised line whose value does not parse, the
\* field of that line is zero
C17_UnparsedIsZero ==
  backend = "ffmpeg" /\ rpc = "read" /\ Len(yielded) > 0 =>
    LET t == yielded[Len(yielded)]
        p == iterState.currentProgress
    IN  /\ t = "fps=N/A" => p.FPSAvg = "0"
        /\ t = "total_size=N/A" => p.CurrentSize = "0"
        /\ t = "out_time_ms=N/A" => p.Percent = "0"

\* C17, amended: a recognised line whose value does not parse leaves its
\* field, and the rest of the running state, as they were, produces no
\* snapshot and does not end the stream: the reader goes on to the next line
C17_UnparsedKeepsField ==
  [][ backend = "ffmpeg" /\ Len(yielded') = Len(yielded) + 1
      /\ yielded'[Len(yielded')] \in UnparsedLines =>
        /\ iterState' = iterState
        /\ emitted' = emitted
        /\ rpc' = "read" ]_vars

\* a speed is parsed, the speed line that follows does not parse, and the
\* elapsed-time line after it produces a snapshot with the speed parsed
C17_Witness ==
  /\ backend = "ffmpeg"
  /\ yielded = <<"fps=25.5", "fps=N/A", "out_time_ms=50000000">>
  /\ Len(emitted) = 1 /\ emitted[1].FPSAvg = "25500"

\* C19: a line with none of the recognised prefixes leaves the running state
\* (speed, size, percent, ETA, start marker and timestamp) as it was and
\* produces no snapshot
C19_UnrecognisedIsIgnored ==
  [][ backend = "ffmpeg" /\ Len(yielded') = Len(yielded) + 1
      /\ yielded'[Len(yielded')] \in UnrecognisedLines =>
        /\ iterState' = iterState
        /\ emitted' = emitted
        /\ rpc' = "read" ]_vars

\* an unrecognised line has been consumed between a speed line and an
\* elapsed-time line, and the snapshot has the speed of the first
C19_Witness ==
  /\ backend = "ffmpeg"
  /\ yielded = <<"fps=25.5", "frame=10", "out_time_ms=50000000">>
  /\ Len(emitted) = 1 /\ emitted[1].FPSAvg = "25500"

(***************************************************************************)
(* ffmpeg: the records of the stream                                       *)
(***************************************************************************)
\* the snapshots of iterProgress for the records recs, from the state st on
RECURSIVE SnapshotsFrom(_, _)
SnapshotsFrom(st, recs) ==
  IF recs = <<>> THEN <<>>
  ELSE LET r == iterProgressLine(st, Head(recs), totalDuration, clock, MaxInt64)
       IN  (IF r.yield THEN <<r.state.currentProgress>> ELSE <<>>)
           \o SnapshotsFrom(r.state, Tail(recs))

\* the snapshots of the records recs, one record a line
SnapshotsOf(recs) ==
  SnapshotsFrom([currentProgress |-> ZeroProgress, startTime |-> "zero",
                 progressStarted |-> FALSE], recs)

\* C18, as stated: "\r" ends a record as "\n" does, and the snapshots of a
\* stream are those of its records, whichever of the two separates them
C18_SeparatorsAlike ==
  backend = "ffmpeg" /\ rpc = "done" =>
    \A st \in SepStreams : st.text = input => emitted = SnapshotsOf(st.recs)

\* C18, amended: only "\n" ends a record, a "\r" before it being dropped:
\* the snapshots of records separated by "\n" or by "\r\n" are those of the
\* records, and a stream separated by "\r" alone is read as one record
C18_OnlyNewlineSeparates ==
  backend = "ffmpeg" /\ rpc = "done" =>
    \A st \in SepStreams :
      st.text = input =>
        IF st.sep = "\r"
        THEN yielded = <<SubSeq(input, 1, Len(input) - 1)>>
        ELSE yielded = st.recs /\ emitted = SnapshotsOf(st.recs)

\* two records separated by "\r" have been read as one, and the snapshot of
\* the second has not been produced
C18_Witness ==
  /\ backend = "ffmpeg" /\ rpc = "done"
  /\ input = "fps=25.5\rout_time_ms=50000000\r"
  /\ Less("0", totalDuration)
  /\ Len(yielded) = 1 /\ emitted = <<>>

(***************************************************************************)
(* ffmpeg: the argument vector                                             *)
(***************************************************************************)
\* where x is in the vector a
Places(a, x) == {i \in DOMAIN a : a[i] = x}
\* the seconds of a value of TimeTexts, as a text
SecondsOf(d) == (CHOOSE x \in TimeTexts : x.d = d).secs
\* the pair "-i", InputPath is at i
InputAt(i) == i + 1 <= Len(args) /\ args[i] = "-i" /\ args[i + 1] = params.InputPath
\* the vector has been built
ArgsBuilt == backend = "ffmpeg" /\ epc # "args"

ValuesOf(a, flag) == { a[i + 1] : i \in { j \in Places(a, flag) : j < Len(a) } }
\* the elements of the vector that are a scale filter
ScaleFilters(a) == { a[i] : i \in { j \in DOMAIN a : HasPrefix(a[j], "scale=") } }
\* a dimension has been requested
Requested(n) == Less("0", n)

\* C21: with neither Width nor Height positive the vector has no scaling
\* argument; with Width alone it has the width alone ("--width W",
\* "-vf scale=W:-2"), with Height alone the height alone ("--height H",
\* "-vf scale=-2:H"), and with both it has both ("--width W --height H",
\* "-vf scale=W:H:force_original_aspect_ratio=decrease"), each once
C21_ScalingFollowsPolicy ==
  epc # "args" =>
    LET w == params.Width
        h == params.Height
    IN  IF backend = "handbrake"
        THEN /\ Cardinality(Places(args, "--width")) = IF Requested(w) THEN 1 ELSE 0
             /\ Cardinality(Places(args, "--height")) = IF Requested(h) THEN 1 ELSE 0
             /\ ValuesOf(args, "--width") = IF Requested(w) THEN {w} ELSE {}
             /\ ValuesOf(args, "--height") = IF Requested(h) THEN {h} ELSE {}
             /\ Places(args, "-vf") = {} /\ ScaleFilters(args) = {}
        ELSE /\ Cardinality(Places(args, "-vf")) =
                  IF Requested(w) \/ Requested(h) THEN 1 ELSE 0
             /\ ValuesOf(args, "-vf") = ScaleFilters(args)
             /\ ScaleFilters(args) =
                  IF Requested(w) /\ Requested(h)
                  THEN {"scale=" \o w \o ":" \o h \o ":force_original_aspect_ratio=decrease"}
                  ELSE IF Requested(w) THEN {"scale=" \o w \o ":-2"}
                  ELSE IF Requested(h) THEN {"scale=-2:" \o h}
                  ELSE {}
             /\ Places(args, "--width") = {} /\ Places(args, "--height") = {}

\* handbrake.Encode has built a vector for a width alone, the height being
\* negative
C21_Witness ==
  /\ backend = "handbrake" /\ epc # "args"
  /\ params.Width = "1280" /\ params.Height = "-1"
  /\ params.FromTime = "500000000" /\ params.Denoise
  /\ \E i \in DOMAIN args : SubSeq(args, i, i + 5) =
       <<"--start-at", "duration:0.5", "--hqdn3d", "light", "--width", "1280">>
  /\ Places(args, "--height") = {}

(***************************************************************************)
(* main: what run passes to Encode                                         *)
(***************************************************************************)
\* run has called Encode
EncodeCalled == epc \in {"args", "probe", "pipe"}

\* C22: when Encode is called, --duration and --to are not both other than
\* zero, and when --to is other than zero the Duration of the call is
\* to - from and is positive
C22_DurationOrTo ==
  EncodeCalled =>
    /\ ~(cli.Duration # "0" /\ cli.ToTime # "0")
    /\ cli.ToTime # "0" =>
         /\ params.Duration = Sub(cli.ToTime, cli.FromTime)
         /\ Less("0", params.Duration)

\* C28: the OutputPath of the call is never its InputPath, which is the
\* resolved video path
C28_OutputIsNotInput ==
  EncodeCalled =>
    /\ params.InputPath = Abs(cli.VideoPath)
    /\ params.OutputPath # params.InputPath

\* the video has " [x265]" in its name already, and the output goes to the
\* directory it is in
C28_Witness ==
  /\ EncodeCalled
  /\ cli.VideoPath = "/v/in [x265].mov" /\ cli.OutputDir = "/v/"
  /\ params.InputPath = "/v/in [x265].mov"
  /\ params.OutputPath = "/v/in [x265] [1080p, x265].mov"

(***************************************************************************)
(* The ETA of the snapshots of ffmpeg                                      *)
(***************************************************************************)
\* a time.Duration that is a whole number of seconds
WholeSeconds(d) == d = "0" \/ (Len(d) > 9 /\ SubSeq(d, Len(d) - 8, Len(d)) = Zeros(9))

\* C27: the ETA of every snapshot is not negative and is a whole number of
\* seconds, whatever time has elapsed
C27_EtaIsWholeAndNotNegative ==
  backend = "ffmpeg" =>
    \A k \in DOMAIN emitted :
      /\ ~IsNeg(emitted[k].ETA)
      /\ WholeSeconds(emitted[k].ETA)

\* 11 days have elapsed at 0.01 percent, the conversion of the estimate to
\* int64 has overflowed, and the snapshot has an ETA
C27_Witness ==
  /\ backend = "ffmpeg" /\ clock = "950400000000000"
  /\ Len(calls) = 1 /\ calls[1].Percent = "10"
  /\ Less("0", calls[1].ETA)
  /\ ~InInt64(Quo(Mul(clock, "100000"), calls[1].Percent))

(***************************************************************************)
(* Encode and the reader task                                              *)
(***************************************************************************)
\* C23: Encode returns once the subprocess has ended, wherever the reader
\* task is: cmd.Wait can return in every state in which Encode waits and
\* the subprocess has exited or has been killed
C23_ReturnNeedsExitOnly ==
  (epc = "wait" /\ proc \in {"exited", "killed"}) => ENABLED Wait

\* Encode has returned nil while a callback is running
C23_Witness ==
  /\ epc = "returned" /\ result = "nil" /\ proc = "exited"
  /\ rpc = "callback" /\ active = 1

\* C24: a read error ends the token sequence of iterLines: the step that
\* meets it yields nothing and ends the reader, the partial token being
\* dropped, and no step after it yields a token; the tokens yielded before
\* stay as they are
C24_ReadErrorEndsTokens ==
  [][ backend = "handbrake" =>
        /\ (~readErr /\ readErr') => (yielded' = yielded /\ rpc' = "done")
        /\ readErr => (yielded' = yielded /\ rpc' = "done") ]_vars

\* cmd.Wait has closed the pipe, the read has failed with a partial token
\* in hand, and a token had been yielded before
C24_Witness ==
  /\ backend = "handbrake" /\ epc = "returned" /\ rdClosed
  /\ readErr /\ rpc = "done"
  /\ currentLine = "a" /\ yielded = <<"a">>

\* C25: a subprocess that is blocked in a write to the full pipe gets on
\* with it: the pipe is drained, with a callback and without one
C25_WriterGetsOn == (proc = "blocked") ~> (proc # "blocked")

\* C26: once the subprocess has exited, or cmd.Wait has closed the pipe, the
\* reader task that Encode has started ends, every callback returning
C26_ReaderEnds == (rpc # "idle" /\ (rdClosed \/ closed)) ~> (rpc = "done")

\* Encode has returned, and the reader has ended on the error of a read from
\* the closed pipe while ffmpeg had a line in the pipe
C26_Witness ==
  /\ backend = "ffmpeg" /\ epc = "returned" /\ rdClosed
  /\ readErr /\ rpc = "done" /\ stdout # ""
====
